---- MODULE Spec2Model ----
(***************************************************************************)
(* A model of the VPS operator agent: the command validator and sandboxed  *)
(* executor of tools.py, and the JSON-action loop of orchestrator.py.      *)
(*                                                                         *)
(* Text is modelled character by character: a string is a sequence of      *)
(* one-character strings, so that the regular expressions, the splitting   *)
(* and the path arithmetic of the code are computed, not assumed.          *)
(***************************************************************************)
EXTENDS Integers, Sequences, FiniteSets, TLC

(***************************************************************************)
(* Bounds of the model.                                                    *)
(***************************************************************************)
\* A generated command is the concatenation of at most MaxParts parts.
MaxParts == 4
\* A generated path is the concatenation of at most MaxPathParts parts.
MaxPathParts == 3
\* Processes a started command can have forked by the time it is stopped.
MaxDescendants == 2
\* Commands in one engine response of the JSON-action loop.
MaxCommands == 1
\* The largest number of commands or tool calls followed step by step
\* through one turn.
MaxRequests == 2
\* Files put into the workspace before list_deliverables scans it.
MaxFiles == 2

(***************************************************************************)
(* Characters and generic text helpers.                                    *)
(***************************************************************************)
LowerSeq == <<"a","b","c","d","e","f","g","h","i","j","k","l","m","n","o","p","q","r","s","t","u","v","w","x","y","z">>
UpperSeq == <<"A","B","C","D","E","F","G","H","I","J","K","L","M","N","O","P","Q","R","S","T","U","V","W","X","Y","Z">>
DigitSeq == <<"0","1","2","3","4","5","6","7","8","9">>

Range(f) == {f[i] : i \in DOMAIN f}

Min(S) == CHOOSE x \in S : \A y \in S : x <= y
Max(S) == CHOOSE x \in S : \A y \in S : y <= x

\* The k-th smallest element of a finite set of integers.
Nth(S, k) == CHOOSE x \in S : Cardinality({y \in S : y < x}) = k - 1

\* \s of the regular expressions and str.split / str.strip: the whitespace
\* character of the alphabet.
Whitespace == {" "}

\* \w of the regular expressions.
WordChars == Range(LowerSeq) \cup Range(UpperSeq) \cup Range(DigitSeq) \cup {"_"}

\* str.lower on one character, then on a string.
LowerChar(c) ==
    IF c \in Range(UpperSeq)
    THEN LowerSeq[CHOOSE i \in DOMAIN UpperSeq : UpperSeq[i] = c]
    ELSE c

\* A variant that leaves the letters as they are: C27 must fail with it.
Lower_AsIs(s) == s

\* str.lower()
Lower(s) == [i \in DOMAIN s |-> LowerChar(s[i])]

\* s[i..] begins with t (i is 1-based).
StartsWithAt(s, i, t) ==
    /\ i >= 1
    /\ i + Len(t) - 1 <= Len(s)
    /\ \A k \in 1..Len(t) : s[i + k - 1] = t[k]

StartsWith(s, t) == StartsWithAt(s, 1, t)

\* t occurs in s (Python's "t in s").
Contains(s, t) == \E i \in 1..(Len(s) + 1) : StartsWithAt(s, i, t)

\* The first index >= i whose character is outside the set cs, or Len(s)+1.
SkipWhile(s, i, cs) ==
    LET stop == {j \in i..Len(s) : s[j] \notin cs}
    IN  IF stop = {} THEN Len(s) + 1 ELSE Min(stop)

\* The first index >= i whose character is inside the set cs, or Len(s)+1.
SkipUntil(s, i, cs) ==
    LET stop == {j \in i..Len(s) : s[j] \in cs}
    IN  IF stop = {} THEN Len(s) + 1 ELSE Min(stop)

\* str.strip().
Strip(s) ==
    LET keep == {i \in DOMAIN s : s[i] \notin Whitespace}
    IN  IF keep = {} THEN <<>> ELSE SubSeq(s, Min(keep), Max(keep))

\* The maximal runs of characters outside seps, in order: str.split() for
\* seps = Whitespace, and the non-empty pieces of str.split("/") for {"/"}.
RECURSIVE SplitScan(_, _, _, _, _)
SplitScan(s, seps, i, cur, acc) ==
    IF i > Len(s) THEN (IF cur = <<>> THEN acc ELSE Append(acc, cur))
    ELSE IF s[i] \in seps
         THEN SplitScan(s, seps, i + 1, <<>>,
                        IF cur = <<>> THEN acc ELSE Append(acc, cur))
         ELSE SplitScan(s, seps, i + 1, Append(cur, s[i]), acc)

SplitRuns(s, seps) == SplitScan(s, seps, 1, <<>>, <<>>)

Split(s) == SplitRuns(s, Whitespace)

\* Concatenation of a sequence of strings.
RECURSIVE Flatten(_)
Flatten(ss) == IF ss = <<>> THEN <<>> ELSE Head(ss) \o Flatten(Tail(ss))

(***************************************************************************)
(* tools.py: constants.                                                    *)
(***************************************************************************)
\* str(WORKSPACE)
WORKSPACE_STR == <<"/","o","p","t","/","c","o","d","i","n","g","-","a","g","e","n","t","/","w","o","r","k","s","p","a","c","e">>

BLOCKED_BINARIES == {
    <<"r","m">>, <<"r","m","d","i","r">>,
    <<"d","d">>, <<"m","k","f","s">>,
    <<"f","d","i","s","k">>, <<"p","a","r","t","e","d">>,
    <<"s","h","u","t","d","o","w","n">>, <<"r","e","b","o","o","t">>,
    <<"p","o","w","e","r","o","f","f">>, <<"h","a","l","t">>,
    <<"i","p","t","a","b","l","e","s">>, <<"i","p","6","t","a","b","l","e","s">>,
    <<"u","f","w">>, <<"f","i","r","e","w","a","l","l","-","c","m","d">>,
    <<"p","a","s","s","w","d">>, <<"u","s","e","r","a","d","d">>,
    <<"u","s","e","r","d","e","l">>, <<"u","s","e","r","m","o","d">>,
    <<"g","r","o","u","p","a","d","d">>, <<"c","h","m","o","d">>,
    <<"c","h","o","w","n">>, <<"c","h","g","r","p">>,
    <<"c","h","a","t","t","r">>, <<"m","o","u","n","t">>,
    <<"u","m","o","u","n","t">>, <<"s","y","s","t","e","m","c","t","l">>,
    <<"s","e","r","v","i","c","e">>, <<"c","r","o","n","t","a","b">>,
    <<"a","t">>, <<"b","a","t","c","h">>,
    <<"s","u","d","o">>, <<"s","u">>,
    <<"d","o","a","s">>, <<"n","c">>,
    <<"n","e","t","c","a","t">>, <<"s","o","c","a","t">>,
    <<"t","e","l","n","e","t">> }

\* The grave accent (U+0060), which a TLA+ string cannot hold, as a character.
GraveAccent == "GRAVE"

SHELL_METACHARACTERS == { <<"|">>, <<">">>, <<"<">>, <<">",">">>, <<"<","<">>,
                          <<"&">>, <<"&","&">>, <<"|","|">>, <<";">>,
                          <<"$","(">>, <<GraveAccent>> }

(***************************************************************************)
(* tools.py: the command validator.                                        *)
(***************************************************************************)
\* _has_shell_syntax
HasShellSyntax(command) == \E meta \in SHELL_METACHARACTERS : Contains(command, meta)

\* One group of ^(\w+=\S+\s+)+ starting at i: the index after it, 0 if the
\* group does not match at i.  Each of \w+, \S+, \s+ is followed by a
\* character outside its own class, so the greedy match is the only one.
EnvGroupEnd(s, i) ==
    LET j == SkipWhile(s, i, WordChars)
        k == SkipUntil(s, j + 1, Whitespace)
        m == SkipWhile(s, k, Whitespace)
    IN  IF /\ j > i
           /\ j <= Len(s) /\ s[j] = "="
           /\ k > j + 1
           /\ m > k
        THEN m ELSE 0

\* The index after the whole match of ^(\w+=\S+\s+)+ that starts at i (i if
\* no group matches there).
RECURSIVE EnvPrefixEnd(_, _)
EnvPrefixEnd(s, i) ==
    IF i > Len(s) THEN i
    ELSE LET m == EnvGroupEnd(s, i)
         IN  IF m = 0 THEN i ELSE EnvPrefixEnd(s, m)

\* A variant that strips nothing: C1 must fail with it.
StripEnvAssignments_Nothing(cmd) == cmd

\* re.sub(r'^(\w+=\S+\s+)+', '', cmd)
StripEnvAssignments(cmd) == SubSeq(cmd, EnvPrefixEnd(cmd, 1), Len(cmd))

\* shlex.split over the alphabet, whose only quoting character is the single
\* quote: whitespace separates tokens outside quotes, a quoted stretch is
\* taken literally and joins the token around it, an empty pair of quotes
\* is an empty token, and a quote left open is a ValueError (ok = FALSE).
RECURSIVE ShlexScan(_, _, _, _, _, _)
ShlexScan(s, i, cur, started, quoted, acc) ==
    IF i > Len(s)
    THEN IF quoted THEN [ok |-> FALSE, tokens |-> <<>>]
         ELSE [ok |-> TRUE,
               tokens |-> IF started THEN Append(acc, cur) ELSE acc]
    ELSE IF quoted
         THEN IF s[i] = "'"
              THEN ShlexScan(s, i + 1, cur, TRUE, FALSE, acc)
              ELSE ShlexScan(s, i + 1, Append(cur, s[i]), TRUE, TRUE, acc)
         ELSE IF s[i] = "'"
              THEN ShlexScan(s, i + 1, cur, TRUE, TRUE, acc)
              ELSE IF s[i] \in Whitespace
                   THEN IF started
                        THEN ShlexScan(s, i + 1, <<>>, FALSE, FALSE, Append(acc, cur))
                        ELSE ShlexScan(s, i + 1, <<>>, FALSE, FALSE, acc)
                   ELSE ShlexScan(s, i + 1, Append(cur, s[i]), TRUE, FALSE, acc)

ShlexSplit(s) == ShlexScan(s, 1, <<>>, FALSE, FALSE, <<>>)

\* Path(binary).name: the last component that is neither empty nor ".",
\* the empty string if there is none.
PathName(word) ==
    LET comps == SplitRuns(word, {"/"})
        kept  == {k \in DOMAIN comps : comps[k] # <<".">>}
    IN  IF kept = {} THEN <<>> ELSE comps[Max(kept)]

\* _extract_binary: [ok, binary]; ok = FALSE is the ValueError of
\* shlex.split.
ExtractBinary(command) ==
    LET cmd == StripEnvAssignments(Strip(command))
    IN  IF HasShellSyntax(cmd)
        THEN LET parts == Split(cmd)
             IN  [ok |-> TRUE,
                  binary |-> IF parts = <<>> THEN <<>> ELSE PathName(parts[1])]
        ELSE LET lexed == ShlexSplit(cmd)
             IN  IF ~lexed.ok THEN [ok |-> FALSE, binary |-> <<>>]
                 ELSE [ok |-> TRUE,
                       binary |-> IF lexed.tokens = <<>> THEN <<>>
                                  ELSE PathName(lexed.tokens[1])]

\* r'/dev/(sd|hd|nvme|vd)[a-z]'
MatchesDiskDevice(s) ==
    \E i \in DOMAIN s :
        /\ StartsWithAt(s, i, <<"/","d","e","v","/">>)
        /\ \E d \in { <<"s","d">>, <<"h","d">>, <<"n","v","m","e">>, <<"v","d">> } :
              /\ StartsWithAt(s, i + 5, d)
              /\ i + 5 + Len(d) <= Len(s)
              /\ s[i + 5 + Len(d)] \in Range(LowerSeq)

\* (-[rf]*\s+)*/ at index k: a group is forced by its first character, and
\* inside a group each star and plus stops at a character outside its class.
RECURSIVE RmGroupsThenSlash(_, _)
RmGroupsThenSlash(s, k) ==
    IF k > Len(s) THEN FALSE
    ELSE IF s[k] = "/" THEN TRUE
    ELSE IF s[k] = "-"
         THEN LET f == SkipWhile(s, k + 1, {"r", "f"})
                  w == SkipWhile(s, f, Whitespace)
              IN  w > f /\ RmGroupsThenSlash(s, w)
         ELSE FALSE

\* r'rm\s+(-[rf]*\s+)*/'
MatchesRecursiveDelete(s) ==
    \E i \in DOMAIN s :
        /\ StartsWithAt(s, i, <<"r","m">>)
        /\ LET w == SkipWhile(s, i + 2, Whitespace)
           IN  \* \s+ may give back whitespace, but the next element of the
               \* pattern starts with "-" or "/", never with whitespace.
               w > i + 2 /\ RmGroupsThenSlash(s, w)

\* r':\(\)\s*\{'
MatchesForkBomb(s) ==
    \E i \in DOMAIN s :
        /\ StartsWithAt(s, i, <<":","(",")">>)
        /\ LET w == SkipWhile(s, i + 3, Whitespace)
           IN  w <= Len(s) /\ s[w] = "{"

\* r'mkfs'
MatchesMkfs(s) == Contains(s, <<"m","k","f","s">>)

\* r'>\s*/dev/'
MatchesDeviceRedirect(s) ==
    \E i \in DOMAIN s :
        /\ s[i] = ">"
        /\ StartsWithAt(s, SkipWhile(s, i + 1, Whitespace), <<"/","d","e","v","/">>)

\* r'/etc/(passwd|shadow|sudoers)'
MatchesSystemFile(s) ==
    \E i \in DOMAIN s :
        /\ StartsWithAt(s, i, <<"/","e","t","c","/">>)
        /\ \E f \in { <<"p","a","s","s","w","d">>, <<"s","h","a","d","o","w">>,
                      <<"s","u","d","o","e","r","s">> } :
              StartsWithAt(s, i + 5, f)

\* The first dangerous pattern that re.search finds in cmd_lower, in the
\* order of the list; "none" if there is none.
DangerousPattern(command) ==
    LET cmd_lower == Lower(command)
    IN  IF MatchesDiskDevice(cmd_lower) THEN "Direct disk device access"
        ELSE IF MatchesRecursiveDelete(cmd_lower) THEN "Recursive delete from root"
        ELSE IF MatchesForkBomb(cmd_lower) THEN "Fork bomb"
        ELSE IF MatchesMkfs(cmd_lower) THEN "Filesystem creation"
        ELSE IF MatchesDeviceRedirect(cmd_lower) THEN "Writing to device files"
        ELSE IF MatchesSystemFile(cmd_lower) THEN "Modifying critical system files"
        ELSE "none"

\* The matches of r'(?:^|\s)(/(?!usr/|bin/|lib/|opt/coding-agent/workspace)[^\s]+)':
\* the whitespace-delimited words that begin with "/", go on for at least
\* one more character, and do not go on with one of the four prefixes.
AbsolutePathMatches(command) ==
    LET words == Split(command)
    IN  {words[k] : k \in {n \in DOMAIN words :
            /\ words[n][1] = "/"
            /\ Len(words[n]) >= 2
            /\ ~StartsWithAt(words[n], 2, <<"u","s","r","/">>)
            /\ ~StartsWithAt(words[n], 2, <<"b","i","n","/">>)
            /\ ~StartsWithAt(words[n], 2, <<"l","i","b","/">>)
            /\ ~StartsWithAt(words[n], 2, SubSeq(WORKSPACE_STR, 2, Len(WORKSPACE_STR)))}}

\* The loop over the matches, lines 76-82: a match raises unless it starts
\* with the workspace or with one of the executable directories.
OutsideAbsolutePath(command) ==
    \E match \in AbsolutePathMatches(command) :
        /\ ~StartsWith(match, WORKSPACE_STR)
        /\ ~StartsWith(match, <<"/","u","s","r","/">>)
        /\ ~StartsWith(match, <<"/","b","i","n","/">>)
        /\ ~StartsWith(match, <<"/","l","i","b","/">>)

\* The blocked-binary test of _validate_command_safety, lines 67-69.
IsBlockedBinary(binary) == binary \in BLOCKED_BINARIES

\* _validate_command_safety: "ok", or the message of the ValueError raised.
ValidateCommandSafety(command) ==
    LET danger == DangerousPattern(command)
        ext    == ExtractBinary(command)
    IN  IF danger # "none" THEN "Blocked: dangerous pattern"
        ELSE IF ~ext.ok THEN "No closing quotation"
        ELSE IF IsBlockedBinary(ext.binary) THEN "Blocked binary"
        ELSE IF OutsideAbsolutePath(command) THEN "Absolute path outside workspace"
        ELSE "ok"

(***************************************************************************)
(* tools.py: paths.  A resolved path is the sequence of its components     *)
(* below the file-system root.                                             *)
(***************************************************************************)
\* WORKSPACE = Path("/opt/coding-agent/workspace").resolve()
WORKSPACE == << <<"o","p","t">>,
                <<"c","o","d","i","n","g","-","a","g","e","n","t">>,
                <<"w","o","r","k","s","p","a","c","e">> >>

\* A symbolic link that may exist in the workspace (a command of an earlier
\* turn can have made it), and the directory outside the workspace it names.
LinkPath == Append(WORKSPACE, <<"l","n","k">>)
LinkTarget == << <<"e","t","c">> >>

\* A file that exists outside the workspace.
OutsideFile == << <<"e","t","c">>, <<"a">> >>

IsPrefix(p, q) == Len(p) <= Len(q) /\ SubSeq(q, 1, Len(p)) = p

\* WORKSPACE / path: an absolute operand replaces the left one.
JoinWorkspace(path) ==
    IF path # <<>> /\ path[1] = "/"
    THEN SplitRuns(path, {"/"})
    ELSE WORKSPACE \o SplitRuns(path, {"/"})

\* Path.resolve(): "." is dropped, ".." leaves the directory reached so far
\* (the root is its own parent), and a symbolic link on the way is followed.
RECURSIVE ResolveFrom(_, _, _)
ResolveFrom(done, rest, link) ==
    IF rest = <<>> THEN done
    ELSE LET c == Head(rest)
             next == IF c = <<".">> THEN done
                     ELSE IF c = <<".",".">>
                          THEN IF done = <<>> THEN <<>>
                               ELSE SubSeq(done, 1, Len(done) - 1)
                          ELSE Append(done, c)
         IN  ResolveFrom(IF link /\ next = LinkPath THEN LinkTarget ELSE next,
                         Tail(rest), link)

\* (WORKSPACE / path).resolve()
Resolve(path, link) == ResolveFrom(<<>>, JoinWorkspace(path), link)

\* A variant that accepts every path: C4 must fail with it.
InsideWorkspace_Anywhere(p) == TRUE

InsideWorkspace(p) == IsPrefix(WORKSPACE, p)

\* not (WORKSPACE not in p.parents)
StrictlyInsideWorkspace(p) == IsPrefix(WORKSPACE, p) /\ p # WORKSPACE

\* _safe_cwd: [ok, path]; ok = FALSE is the ValueError it raises.
SafeCwd(cwd, link) ==
    IF cwd = <<>> THEN [ok |-> TRUE, path |-> WORKSPACE]
    ELSE LET p == Resolve(cwd, link)
         IN  [ok |-> InsideWorkspace(p), path |-> p]

(***************************************************************************)
(* tools.py: run_shell.                                                    *)
(***************************************************************************)
\* The number of trailing characters of a process's output that a result keeps.
OUTPUT_TAIL == 8000
TIMEOUT_MIN == 1
TIMEOUT_MAX == 600
DEFAULT_TIMEOUT == 60

\* text[-8000:], on the length of the text.
TailLen(n) == IF n > OUTPUT_TAIL THEN OUTPUT_TAIL ELSE n

\* A variant that leaves the timeout as given: C19 must fail with it.
ClampTimeout_AsGiven(timeout) == timeout

\* if not (1 <= timeout <= 600): timeout = min(max(timeout, 1), 600)
ClampTimeout(timeout) ==
    IF TIMEOUT_MIN <= timeout /\ timeout <= TIMEOUT_MAX THEN timeout
    ELSE LET lo == IF timeout > TIMEOUT_MIN THEN timeout ELSE TIMEOUT_MIN
         IN  IF lo < TIMEOUT_MAX THEN lo ELSE TIMEOUT_MAX

VARIABLES
    linkPresent,  \* the symbolic link LinkPath exists
    shPc,         \* run_shell: "idle", "called", "returned" or "raised"
    shCall,       \* the arguments of the call: command, cwd, timeout
    shResult,     \* the dictionary run_shell returned
    shTrace,      \* what the call did: what the validator said, cwd resolved, process created
    procs         \* how many processes started by run_shell are still running

VARIABLES
    files,        \* the regular files that exist: resolved path -> content
    dirs,         \* the directories that exist
    fCall,        \* the path argument the file operations are called with
    fResult,      \* the dictionary the last file operation returned
    fTrace        \* what the last file operation did to the file system

VARIABLES
    oPc,              \* Orchestrator.run_task: "created", "loop", "after_loop",
                      \* "returned", "raised" or "exited"
    iteration,        \* self.iteration
    mdStatus,         \* self.metadata["status"], "unset" while the key is missing
    blockReason,      \* self.metadata["block_reason"], "unset" while missing
    totalCommands,    \* total_commands
    failedCommands,   \* failed_commands
    sessionJson,      \* what was written to session.json
    finalizeCount,    \* how many times lines 438-454 have run
    oSpawned,         \* the commands execute_command has created a process for
    lastResponse,     \* the last engine response: how the loop took it
    allContinueEmpty, \* every response so far was valid JSON, "continue", no commands
    iterationRecords  \* the iteration files _log_iteration has written

VARIABLES
    gPc,           \* get_complete_response: "idle", "calling" or "returned"
    gAttempts,     \* attempts
    gAccumulated,  \* accumulated_response
    gFragments,    \* the contents the engine has returned in this turn, in order
    gCalls,        \* the engine calls made in this turn
    gAppended,     \* what the turn has appended to the caller's messages
    gResult        \* the pair returned

VARIABLES
    dLoop,      \* the loop that is dispatching: "none", "orchestrator" or "agent"
    dPc,        \* where the loop is within its turn
    dTurn,      \* vps_agent.run_task: the turns begun
    dMaxTurns,  \* vps_agent.run_task: max_turns
    dRequests,  \* the commands or tool calls of the engine's response, in order
    dNext,      \* the position of the for loop over them
    dEvents,    \* the starts and ends of executions in this turn, in order
    dResults,   \* the results obtained in this turn, in order
    dFeedback,  \* the results handed to the engine for this turn, in order
    aOut        \* vps_agent.run_task: its transcript and what it returned

VARIABLES
    pySessions,            \* the run_python calls of the sessions sharing the workspace
    conversation_history,  \* CodingAgent.conversation_history
    chatResult,            \* what the last call_chatgpt did and returned
    stateFile,             \* what STATE_PATH holds
    state,                 \* CodingAgent.state
    caRun                  \* CodingAgent.run: where it is and what it has done

envVars == <<linkPresent, procs>>
shellVars == <<shPc, shCall, shResult, shTrace>>
fileVars == <<files, dirs, fCall, fResult, fTrace>>
orchVars == <<oPc, iteration, mdStatus, blockReason, totalCommands, failedCommands,
              sessionJson, finalizeCount, oSpawned, lastResponse, allContinueEmpty,
              iterationRecords>>
engineVars == <<gPc, gAttempts, gAccumulated, gFragments, gCalls, gAppended, gResult>>
dispatchVars == <<dLoop, dPc, dTurn, dMaxTurns, dRequests, dNext, dEvents, dResults,
                  dFeedback, aOut>>
codingVars == <<stateFile, state, caRun>>
sessionVars == <<pySessions, conversation_history, chatResult, codingVars>>
loopVars == <<orchVars, engineVars, dispatchVars, sessionVars>>
vars == <<envVars, shellVars, fileVars, loopVars>>

NoResult == [returncode |-> -1, stdout |-> 0, stderr |-> <<>>, cwd |-> <<>>,
             has_cwd |-> FALSE, has_shell_mode |-> FALSE, shell_mode |-> FALSE]
\* No process was created, so none was given an environment.
NoEnv == [restricted |-> FALSE, PWD |-> <<>>, observed |-> "none"]

NoTrace == [validated |-> "not validated", cwdResolved |-> FALSE,
            spawned |-> FALSE, timeout |-> 0, mode |-> "none", env |-> NoEnv]
NoCall == [command |-> <<>>, cwd |-> <<>>, timeout |-> DEFAULT_TIMEOUT]

ShellIdle ==
    /\ shPc = "idle"
    /\ shCall = NoCall
    /\ shResult = NoResult
    /\ shTrace = NoTrace

NoSessionJson == [written |-> FALSE, status |-> "unset", block_reason |-> "unset",
                  total_commands |-> 0, failed_commands |-> 0,
                  deliverables |-> FALSE, iterations |-> 0]
NoResponse == [kind |-> "none", status |-> "none", reasoning |-> "none",
               ignored |-> <<>>, calls |-> <<>>]

\* No iteration file has been written: the count of the iteration numbers
\* that have their files.
NoRecords == 0

\* vps_agent.run_task before its first turn, and before it has returned.
NoReturn == [kind |-> "none", transcript |-> 0, text |-> <<>>, deliverables |-> FALSE]
NoAgentOut == [include_transcript |-> TRUE, engine_calls |-> 0, transcript |-> 0,
               response_text |-> <<>>, raised_by |-> "none", returned |-> NoReturn,
               items |-> <<>>]

NoChatResult == [outcome |-> "none", returned |-> <<>>]

\* No session is in run_python.
PythonIdle == pySessions = <<>>

\* A CodingAgent that has not called the engine.
ChatIdle ==
    /\ conversation_history = <<>>
    /\ chatResult = NoChatResult

\* STATE_PATH does not exist.
NoStateFile == [exists |-> FALSE, valid |-> FALSE, iteration |-> 0,
                task_completed |-> FALSE]

\* The state load_state returns when it cannot read one.
FreshState == [iteration |-> 0, task_completed |-> FALSE]

\* No CodingAgent has been made.
NoRun == [pc |-> "idle", max_iterations |-> 0, has_task |-> FALSE, runs |-> 0,
          executed |-> 0, engine_calls |-> 0, started_at |-> 0, returned |-> -1]

CodingIdle ==
    /\ stateFile = NoStateFile
    /\ state = FreshState
    /\ caRun = NoRun

SessionsIdle == PythonIdle /\ ChatIdle /\ CodingIdle

\* Neither loop is dispatching.
NoDispatch ==
    /\ aOut = NoAgentOut
    /\ dLoop = "none"
    /\ dPc = "idle"
    /\ dTurn = 0
    /\ dMaxTurns = 0
    /\ dRequests = <<>>
    /\ dNext = 0
    /\ dEvents = <<>>
    /\ dResults = <<>>
    /\ dFeedback = <<>>

DispatchIdle == SessionsIdle /\ NoDispatch

NoEngineResult == [text |-> <<>>, none |-> FALSE, status |-> "none"]

EngineIdle ==
    /\ gPc = "idle"
    /\ gAttempts = 0
    /\ gAccumulated = <<>>
    /\ gFragments = <<>>
    /\ gCalls = 0
    /\ gAppended = <<>>
    /\ gResult = NoEngineResult

OrchIdle ==
    /\ EngineIdle
    /\ oPc = "idle"
    /\ iteration = 0
    /\ mdStatus = "unset"
    /\ blockReason = "unset"
    /\ totalCommands = 0
    /\ failedCommands = 0
    /\ sessionJson = NoSessionJson
    /\ finalizeCount = 0
    /\ oSpawned = {}
    /\ lastResponse = NoResponse
    /\ allContinueEmpty = TRUE
    /\ iterationRecords = NoRecords

\* The directories that exist when the agent starts: the workspace and what
\* is above it, the target of the symbolic link, and one directory "a" in
\* the workspace.
InitialDirs ==
    { SubSeq(WORKSPACE, 1, n) : n \in 0..Len(WORKSPACE) }
        \cup { LinkTarget, Append(WORKSPACE, <<"a">>) }

\* The files that exist when the agent starts: "a/a" in the workspace, and
\* the file outside it.
InsideFile == WORKSPACE \o << <<"a">>, <<"a">> >>
InitialFiles ==
    [q \in {InsideFile, OutsideFile} |->
        IF q = InsideFile THEN <<"h","i">> ELSE <<"s","e","c","r","e","t">>]

NoFileResult == [op |-> "none", path |-> <<>>, resolved |-> FALSE, error |-> "",
                 content |-> <<>>, success |-> FALSE, returncode |-> -1,
                 stdout |-> 0]
NoFileTrace == [read |-> {}, wrote |-> {}, made |-> {}, spawned |-> {}, env |-> NoEnv,
                timeout |-> 0, timeout_arg |-> 0, content_arg |-> <<>>,
                max_bytes_arg |-> 0]

FilesIdle ==
    /\ files = InitialFiles
    /\ dirs = InitialDirs
    /\ fCall = <<>>
    /\ fResult = NoFileResult
    /\ fTrace = NoFileTrace

\* The pieces generated commands are made of.
CommandParts == { <<"r","m">>, <<"l","s">>, <<" ">>, <<"A","=","b">>,
                  <<"/">>, <<"'">>, <<";">> }

Commands ==
    UNION { { Flatten(ps) : ps \in [1..n -> CommandParts] } : n \in 0..MaxParts }

\* The commands that are called with every working directory and timeout:
\* allowed without and with shell syntax, allowed but not splittable into
\* an argument vector, and blocked.
CallCommands == { <<"l","s">>, <<"l","s",";","l","s">>,
                  <<"A","=","'"," ","l","s">>, <<"r","m">> }

\* Working directories: none, inside, the root by a detour, outside by "..",
\* outside by an absolute path, and through the symbolic link.
Cwds == { <<>>, <<"a">>, <<".",".","/","w","o","r","k","s","p","a","c","e">>,
          <<".",".">>, <<"/","e","t","c">>, <<"l","n","k">> }

Timeouts == { -1, 0, 1, DEFAULT_TIMEOUT, 600, 601 }

\* How a process that exits on its own can end: its exit code, the length of
\* what it wrote to stdout, and what it wrote to stderr.
ProcessExits ==
    { [rc |-> 0, out |-> OUTPUT_TAIL + 1, err |-> <<>>],
      [rc |-> 1, out |-> 5, err |-> <<"stderr of the process">>] }

InitShell ==
    /\ shPc = "called"
    /\ \/ /\ shCall \in [command : Commands, cwd : {<<>>}, timeout : {DEFAULT_TIMEOUT}]
          /\ linkPresent = FALSE
       \/ /\ shCall \in [command : CallCommands, cwd : Cwds, timeout : Timeouts]
          /\ linkPresent \in BOOLEAN
    /\ shResult = NoResult
    /\ shTrace = NoTrace
    /\ procs = 0
    /\ FilesIdle
    /\ OrchIdle
    /\ DispatchIdle

\* A variant whose stderr lacks the prefix: C3 must fail with it.
BlockedResult_NoPrefix(safety) ==
    [returncode |-> 126, stdout |-> 0, stderr |-> <<safety>>,
     cwd |-> WORKSPACE, has_cwd |-> TRUE,
     has_shell_mode |-> FALSE, shell_mode |-> FALSE]

\* The dictionary of lines 109-115.
BlockedResult(safety) ==
    [returncode |-> 126, stdout |-> 0, stderr |-> <<"BLOCKED: ", safety>>,
     cwd |-> WORKSPACE, has_cwd |-> TRUE,
     has_shell_mode |-> FALSE, shell_mode |-> FALSE]

\* What run_shell does once the validator has raised, lines 108-115.
ReturnBlocked(safety, timeout) ==
    /\ shPc' = "returned"
    /\ shResult' = BlockedResult(safety)
    /\ shTrace' = [validated |-> safety, cwdResolved |-> FALSE,
                   spawned |-> FALSE, timeout |-> timeout, mode |-> "none",
                   env |-> NoEnv]
    /\ UNCHANGED procs

\* subprocess.run on timeout: the child is killed and waited for; what the
\* child forked is not signalled.  d is the number of such processes alive.
KillOnTimeout(d) == procs' = procs + d

\* What the variables of the agent process's own environment hold.
AgentEnvironments == {"SECRET=1", "SECRET=2"}

\* A variant that gives the shell no env argument: C31 must fail with it.
SubprocessEnv_NoEnvArgument(use_shell, agent_env, cwd) ==
    [restricted |-> FALSE, PWD |-> <<>>, observed |-> agent_env]

\* The environment of the process subprocess.run creates: the dictionary of
\* lines 124-128 (PATH, HOME, PWD) where env=env is passed, which is in
\* shell mode only; without an env argument the process inherits
\* os.environ.
SubprocessEnv(use_shell, agent_env, cwd) ==
    IF use_shell THEN [restricted |-> TRUE, PWD |-> cwd, observed |-> "none"]
    ELSE [restricted |-> FALSE, PWD |-> <<>>, observed |-> agent_env]

\* Lines 119-175: the command is run in cwd p with the given timeout.
Execute(command, p, timeout) ==
    \E use_shell \in {HasShellSyntax(command)},
       splittable \in {ShlexSplit(command).ok},
       agent_env \in AgentEnvironments :
    LET trace(spawned) == [validated |-> "ok", cwdResolved |-> TRUE,
                           spawned |-> spawned, timeout |-> timeout,
                           mode |-> IF ~spawned THEN "none"
                                    ELSE IF use_shell THEN "shell" ELSE "argv",
                           env |-> IF ~spawned THEN NoEnv
                                   ELSE SubprocessEnv(use_shell, agent_env, p)]
        failed == [returncode |-> 127, stdout |-> 0,
                   stderr |-> <<"Execution error: ">>,
                   cwd |-> p, has_cwd |-> TRUE,
                   has_shell_mode |-> FALSE, shell_mode |-> FALSE]
    IN  /\ shPc' = "returned"
        /\ \/ \* shlex.split(command) raises inside the try block
              /\ ~use_shell /\ ~splittable
              /\ shResult' = failed
              /\ shTrace' = trace(FALSE)
              /\ UNCHANGED procs
           \/ \* the process cannot be created (OSError)
              /\ use_shell \/ splittable
              /\ shResult' = failed
              /\ shTrace' = trace(FALSE)
              /\ UNCHANGED procs
           \/ \* the process exits in time
              /\ use_shell \/ splittable
              /\ \E e \in ProcessExits :
                    shResult' = [returncode |-> e.rc, stdout |-> TailLen(e.out),
                                 stderr |-> e.err, cwd |-> p, has_cwd |-> TRUE,
                                 has_shell_mode |-> TRUE, shell_mode |-> use_shell]
              /\ shTrace' = trace(TRUE)
              /\ UNCHANGED procs
           \/ \* subprocess.TimeoutExpired
              /\ use_shell \/ splittable
              /\ shResult' = [returncode |-> 124, stdout |-> 0,
                              stderr |-> <<"Command timed out after ">>,
                              cwd |-> p, has_cwd |-> TRUE,
                              has_shell_mode |-> FALSE, shell_mode |-> FALSE]
              /\ shTrace' = trace(TRUE)
              /\ \E d \in 0..(MaxDescendants - procs) : KillOnTimeout(d)

\* run_shell(command, cwd, timeout)
RunShell ==
    /\ shPc = "called"
    /\ UNCHANGED <<linkPresent, shCall, fileVars, loopVars>>
    /\ IF Strip(shCall.command) = <<>>
       THEN /\ shPc' = "returned"
            /\ shResult' = [NoResult EXCEPT !.returncode = 1,
                                            !.stderr = <<"Empty command">>]
            /\ UNCHANGED <<shTrace, procs>>
       ELSE \E safety \in {ValidateCommandSafety(shCall.command)},
               safe \in {SafeCwd(shCall.cwd, linkPresent)} :
            LET timeout == ClampTimeout(shCall.timeout)
            IN  IF safety # "ok" THEN ReturnBlocked(safety, timeout)
                ELSE IF ~safe.ok
                     THEN \* _safe_cwd raises outside any try block
                          /\ shPc' = "raised"
                          /\ shTrace' = [validated |-> "ok", cwdResolved |-> TRUE,
                                         spawned |-> FALSE, timeout |-> timeout,
                                         mode |-> "none", env |-> NoEnv]
                          /\ UNCHANGED <<shResult, procs>>
                     ELSE Execute(shCall.command, safe.path, timeout)

\* A process left running by an earlier call ends on its own.
OrphanExits ==
    /\ procs > 0
    /\ procs' = procs - 1
    /\ UNCHANGED <<linkPresent, shellVars, fileVars, loopVars>>

NextShell == RunShell \/ OrphanExits

SpecShell == InitShell /\ [][NextShell]_vars

(***************************************************************************)
(* run_shell over commands that hold a dangerous text.                     *)
(***************************************************************************)
\* Texts of the six kinds that dangerous_patterns, lines 53-60, is there
\* for, in lower, upper and mixed case.
DangerousTexts ==
    { <<"/","d","e","v","/","s","d","a">>,
      <<"/","D","E","V","/","H","D","A">>,
      <<"/","d","e","v","/","n","v","m","e","n">>,
      <<"/","D","e","v","/","V","d","b">>,
      <<"r","m"," ","/">>,
      <<"R","M"," ","-","R","F"," ","/">>,
      <<"r","m"," ","-","r"," ","-","f"," ","/","x">>,
      <<"r","m"," "," ","-","f","r"," ","/">>,
      <<":","(",")","{">>,
      <<":","(",")"," ","{">>,
      <<"m","k","f","s">>,
      <<"M","k","F","s",".","e","x","t","4">>,
      <<">","/","d","e","v","/">>,
      <<">"," ","/","D","E","V","/","n","u","l","l">>,
      <<"/","e","t","c","/","p","a","s","s","w","d">>,
      <<"/","E","T","C","/","S","h","a","d","o","w">>,
      <<"/","e","t","c","/","s","u","d","o","e","r","s">> }

\* What stands before and after the text: nothing, another binary as the
\* first word, an earlier command of a shell line; nothing, a further word.
TextPrefixes == { <<>>, <<"l","s"," ">>, <<"x",";">> }
TextSuffixes == { <<>>, <<" ","x">> }

\* Commands without any of the texts.
HarmlessCommands == { <<"l","s">>, <<"L","S"," ","x">> }

PatternCommands ==
    { pre \o text \o suf : pre \in TextPrefixes, text \in DangerousTexts,
                            suf \in TextSuffixes }
        \cup HarmlessCommands

InitPatterns ==
    /\ linkPresent = FALSE
    /\ procs = 0
    /\ shPc = "called"
    /\ \E command \in PatternCommands :
          shCall = [command |-> command, cwd |-> <<>>, timeout |-> DEFAULT_TIMEOUT]
    /\ shResult = NoResult
    /\ shTrace = NoTrace
    /\ FilesIdle
    /\ OrchIdle
    /\ DispatchIdle

NextPatterns == RunShell \/ OrphanExits

SpecPatterns == InitPatterns /\ [][NextPatterns]_vars

(***************************************************************************)
(* tools.py: read_file, write_file, run_python.                            *)
(***************************************************************************)
DEFAULT_MAX_BYTES == 200000

\* The pieces generated paths are made of.
PathParts == { <<"/">>, <<".",".","/">>, <<".","/">>, <<"a","/">>,
               <<"l","n","k","/">>,
               <<"w","o","r","k","s","p","a","c","e","/">>,
               <<"o","p","t","/","c","o","d","i","n","g","-","a","g","e","n","t","/">> }

Paths ==
    UNION { { Flatten(ps) : ps \in [1..n -> PathParts] } : n \in 0..MaxPathParts }

Contents == { <<>>, <<"o","k">> }
Codes == { <<"p","y">> }
MaxBytes == { DEFAULT_MAX_BYTES, 1 }

InitFiles ==
    /\ linkPresent \in BOOLEAN
    /\ procs = 0
    /\ ShellIdle
    /\ files = InitialFiles
    /\ dirs = InitialDirs
    /\ fCall \in Paths
    /\ fResult = NoFileResult
    /\ fTrace = NoFileTrace
    /\ OrchIdle
    /\ DispatchIdle

\* A character outside ASCII (two bytes in UTF-8), its bytes, and the
\* character that decoding puts in the place of bytes that are no character.
EAcute == "e-acute"
ByteC3 == "0xC3"
ByteA9 == "0xA9"
ReplacementChar == "U+FFFD"

\* content.encode("utf-8"), as p.write_text does: an ASCII character is its
\* own byte.
Utf8Encode(text) ==
    Flatten([i \in DOMAIN text |->
                IF text[i] = EAcute THEN <<ByteC3, ByteA9>> ELSE <<text[i]>>])

\* A variant that takes every byte for a character: C20 must fail with it.
Utf8Decode_Bytewise(bytes) == bytes

\* data.decode("utf-8", errors="replace")
RECURSIVE Utf8DecodeFrom(_, _)
Utf8DecodeFrom(bytes, i) ==
    IF i > Len(bytes) THEN <<>>
    ELSE IF bytes[i] = ByteC3 /\ i < Len(bytes) /\ bytes[i + 1] = ByteA9
    THEN <<EAcute>> \o Utf8DecodeFrom(bytes, i + 2)
    ELSE IF bytes[i] \in {ByteC3, ByteA9}
    THEN <<ReplacementChar>> \o Utf8DecodeFrom(bytes, i + 1)
    ELSE <<bytes[i]>> \o Utf8DecodeFrom(bytes, i + 1)

Utf8Decode(bytes) == Utf8DecodeFrom(bytes, 1)

\* p.exists(), p.is_file()
Exists(p) == p \in dirs \/ p \in DOMAIN files
IsFile(p) == p \in DOMAIN files

\* The directories above p, the root included.
Parents(p) == { SubSeq(p, 1, n) : n \in 0..(Len(p) - 1) }

\* data[:max_bytes]
Take(data, n) == SubSeq(data, 1, IF Len(data) < n THEN Len(data) ELSE n)

\* p.write_text(content) where nothing stands in the way.
WithFile(p, content) ==
    [q \in DOMAIN files \cup {p} |-> IF q = p THEN content ELSE files[q]]

\* A variant that looks for the file before it looks at where the path
\* leads: C32 must fail with it.
ReadFileError_ExistenceFirst(p) ==
    IF ~Exists(p) THEN "not_found"
    ELSE IF ~InsideWorkspace(p) THEN "path must be inside workspace"
    ELSE IF ~IsFile(p) THEN "not_a_file"
    ELSE ""

\* The tests of read_file in their order, lines 220-227: the error of the
\* first that fails, "" when the file is read.
ReadFileError(p) ==
    IF ~InsideWorkspace(p) THEN "path must be inside workspace"
    ELSE IF ~Exists(p) THEN "not_found"
    ELSE IF ~IsFile(p) THEN "not_a_file"
    ELSE ""

\* read_file(path, max_bytes)
ReadFile(max_bytes) ==
    \E p \in {Resolve(fCall, linkPresent)} :
    LET result(err, content) ==
            [op |-> "read_file", path |-> p, resolved |-> TRUE, error |-> err,
             content |-> content, success |-> FALSE, returncode |-> -1,
             stdout |-> 0]
        refusal == ReadFileError(p)
    IN  /\ UNCHANGED <<files, dirs, fCall, envVars, shellVars, loopVars>>
        /\ IF refusal = "path must be inside workspace"
           THEN \* l.231-232: the handler returns the path as it was given
                /\ fResult' = [result(refusal, <<>>) EXCEPT !.resolved = FALSE,
                                                            !.path = fCall]
                /\ fTrace' = NoFileTrace
           ELSE IF refusal # ""
           THEN /\ fResult' = result(refusal, <<>>)
                /\ fTrace' = NoFileTrace
           ELSE /\ fResult' = result("", Utf8Decode(Take(files[p], max_bytes)))
                /\ fTrace' = [NoFileTrace EXCEPT !.read = {p},
                                                 !.max_bytes_arg = max_bytes]

\* write_file(path, content)
WriteFile(content) ==
    \E p \in {Resolve(fCall, linkPresent)} :
    LET result(err, ok) ==
            [op |-> "write_file", path |-> p, resolved |-> ok, error |-> err,
             content |-> <<>>, success |-> ok, returncode |-> -1, stdout |-> 0]
    IN  /\ UNCHANGED <<fCall, envVars, shellVars, loopVars>>
        /\ IF ~InsideWorkspace(p)
           THEN /\ fResult' = result("path must be inside workspace", FALSE)
                /\ fTrace' = NoFileTrace
                /\ UNCHANGED <<files, dirs>>
           ELSE IF \E a \in Parents(p) : IsFile(a)
           THEN \* p.parent.mkdir raises: a file stands where a directory is needed
                /\ fResult' = result("mkdir failed", FALSE)
                /\ fTrace' = NoFileTrace
                /\ UNCHANGED <<files, dirs>>
           ELSE IF p \in dirs
           THEN \* p.write_text raises IsADirectoryError; its parents exist
                /\ fResult' = result("Is a directory", FALSE)
                /\ fTrace' = NoFileTrace
                /\ UNCHANGED <<files, dirs>>
           ELSE /\ dirs' = dirs \cup Parents(p)
                /\ files' = WithFile(p, Utf8Encode(content))
                /\ fResult' = result("", TRUE)
                /\ fTrace' = [NoFileTrace EXCEPT !.wrote = {p},
                                                 !.made = Parents(p) \ dirs,
                                                 !.content_arg = content]

\* run_python(code, filename, timeout)
RunPython(code, timeout0) ==
    \E p \in {Resolve(fCall, linkPresent)}, agent_env \in AgentEnvironments :
    LET timeout == ClampTimeout(timeout0)
        result(rc, out, err) ==
            [op |-> "run_python", path |-> p, resolved |-> TRUE, error |-> err,
             content |-> <<>>, success |-> FALSE, returncode |-> rc,
             stdout |-> out]
        wrote == [NoFileTrace EXCEPT !.wrote = {p}, !.content_arg = code]
        ran == [wrote EXCEPT !.spawned = {p}, !.timeout = timeout,
                             !.timeout_arg = timeout0,
                             !.env = SubprocessEnv(FALSE, agent_env, WORKSPACE)]
    IN  /\ UNCHANGED <<fCall, dirs, linkPresent, shellVars, loopVars>>
        /\ IF ~StrictlyInsideWorkspace(p)
           THEN /\ fResult' = result(127, 0, "Error: filename must be inside workspace")
                /\ fTrace' = NoFileTrace
                /\ UNCHANGED <<files, procs>>
           ELSE IF p \in dirs \/ SubSeq(p, 1, Len(p) - 1) \notin dirs
           THEN \* p.write_text raises: p is a directory, or its parent is none
                /\ fResult' = result(127, 0, "Error: ")
                /\ fTrace' = NoFileTrace
                /\ UNCHANGED <<files, procs>>
           ELSE /\ files' = WithFile(p, Utf8Encode(code))
                /\ \/ \* python3 cannot be started
                      /\ fResult' = result(127, 0, "Error: ")
                      /\ fTrace' = wrote
                      /\ UNCHANGED procs
                   \/ \* the process exits in time
                      /\ \E e \in ProcessExits :
                            fResult' = result(e.rc, TailLen(e.out), "")
                      /\ fTrace' = ran
                      /\ UNCHANGED procs
                   \/ \* subprocess.TimeoutExpired
                      /\ fResult' = result(124, 0, "Python execution timed out after ")
                      /\ fTrace' = ran
                      /\ \E d \in 0..(MaxDescendants - procs) : KillOnTimeout(d)

NextFiles ==
    \/ \E max_bytes \in MaxBytes : ReadFile(max_bytes)
    \/ \E content \in Contents : WriteFile(content)
    \/ \E code \in Codes, timeout \in {DEFAULT_TIMEOUT} : RunPython(code, timeout)
    \/ OrphanExits

SpecFiles == InitFiles /\ [][NextFiles]_vars

(***************************************************************************)
(* run_shell and run_python over the timeouts they can be given.           *)
(***************************************************************************)
InitTimeouts ==
    /\ linkPresent = FALSE
    /\ procs = 0
    /\ shPc = "called"
    /\ shCall \in [command : {<<"l","s">>, <<"l","s",";","l","s">>}, cwd : {<<>>},
                   timeout : Timeouts]
    /\ shResult = NoResult
    /\ shTrace = NoTrace
    /\ files = InitialFiles
    /\ dirs = InitialDirs
    /\ fCall = <<"a","/","s",".","p","y">>
    /\ fResult = NoFileResult
    /\ fTrace = NoFileTrace
    /\ OrchIdle
    /\ DispatchIdle

NextTimeouts ==
    \/ RunShell
    \/ \E code \in Codes, timeout \in Timeouts : RunPython(code, timeout)
    \/ OrphanExits

SpecTimeouts == InitTimeouts /\ [][NextTimeouts]_vars

(***************************************************************************)
(* write_file and read_file on one path, over contents with characters of  *)
(* more than one byte.                                                     *)
(***************************************************************************)
RoundTripPaths ==
    { <<"n">>, <<"a","/","a">>, <<"b","/","c">>, <<"a">>,
      <<"l","n","k","/","x">>, <<".",".","/","x">> }

RoundTripContents == { <<>>, <<"o","k">>, <<EAcute>>, <<"o", EAcute>> }

\* max_bytes: the default, and values around the length of the contents.
RoundTripMaxBytes == { DEFAULT_MAX_BYTES, 1, 3 }

InitRoundTrip ==
    /\ linkPresent \in BOOLEAN
    /\ procs = 0
    /\ ShellIdle
    /\ files = InitialFiles
    /\ dirs = InitialDirs
    /\ fCall \in RoundTripPaths
    /\ fResult = NoFileResult
    /\ fTrace = NoFileTrace
    /\ OrchIdle
    /\ DispatchIdle

NextRoundTrip ==
    \/ \E content \in RoundTripContents : WriteFile(content)
    \/ \E max_bytes \in RoundTripMaxBytes : ReadFile(max_bytes)

SpecRoundTrip == InitRoundTrip /\ [][NextRoundTrip]_vars

(***************************************************************************)
(* read_file over file systems that differ in what exists outside the      *)
(* workspace.                                                              *)
(***************************************************************************)
\* What there may be outside the workspace: the file /etc/a or no such file.
OutsideWorlds ==
    { InitialFiles, [q \in {InsideFile} |-> InitialFiles[q]] }

InitExistence ==
    /\ linkPresent \in BOOLEAN
    /\ procs = 0
    /\ ShellIdle
    /\ files \in OutsideWorlds
    /\ dirs = InitialDirs
    /\ fCall \in Paths
    /\ fResult = NoFileResult
    /\ fTrace = NoFileTrace
    /\ OrchIdle
    /\ DispatchIdle

NextExistence == \E max_bytes \in MaxBytes : ReadFile(max_bytes)

SpecExistence == InitExistence /\ [][NextExistence]_vars

(***************************************************************************)
(* list_deliverables, tools.py lines 255-275, over workspaces that hold    *)
(* up to MaxFiles files.                                                   *)
(***************************************************************************)
\* extensions
EXTENSIONS == { <<".","t","x","t">>, <<".","j","s","o","n">>, <<".","c","s","v">>, <<".","h","t","m","l">>, <<".","m","d">>, <<".","p","y">>, <<".","s","h">>, <<".","l","o","g">> }

\* exclude_names
EXCLUDE_NAMES == { <<"s","n","i","p","p","e","t",".","p","y">>, <<".","g","i","t","k","e","e","p">> }

\* The files a workspace may hold, as the names below the workspace root.
CandidateFiles ==
    { << <<"b",".","t","x","t">> >>,
      << <<"B",".","m","d">> >>,
      << <<".","t","x","t">> >>,
      << <<"b",".","T","X","T">> >>,
      << <<"s","n","i","p","p","e","t",".","p","y">> >>,
      << <<"d">>, <<"s","n","i","p","p","e","t",".","p","y">> >>,
      << <<"d">>, <<".","g","i","t","k","e","e","p">> >>,
      << <<"d">>, <<"b",".","t","x","t">> >>,
      << <<"d",".","s","h">>, <<"c",".","p","y">> >>,
      << <<"n">> >>,
      << <<"d","-","b",".","t","x","t">> >> }

\* The workspaces: the directories and files of the start, and up to
\* MaxFiles of the candidate files with the directories they are in.
WorkspaceFiles == { S \in SUBSET CandidateFiles : Cardinality(S) <= MaxFiles }

\* PurePath.suffix: the name from its last dot on, unless that dot begins or
\* ends the name.
PathSuffix(name) ==
    LET dots == {k \in DOMAIN name : name[k] = "."}
    IN  IF dots = {} \/ Max(dots) = 1 \/ Max(dots) = Len(name) THEN <<>>
        ELSE SubSeq(name, Max(dots), Len(name))

\* str(item.relative_to(WORKSPACE)): the names below the root, joined by "/".
RECURSIVE JoinNames(_)
JoinNames(names) ==
    IF names = <<>> THEN <<>>
    ELSE IF Len(names) = 1 THEN names[1]
    ELSE names[1] \o <<"/">> \o JoinNames(Tail(names))

RelativeTo(item, root) == JoinNames(SubSeq(item, Len(root) + 1, Len(item)))

\* The order of the characters: their code points, which is what the
\* comparison of two str compares.
CodePointOrder == <<"-", ".", "/">> \o DigitSeq \o UpperSeq \o LowerSeq
CodePoint(c) == CHOOSE k \in DOMAIN CodePointOrder : CodePointOrder[k] = c

\* a < b for two str.
StrLess(a, b) ==
    \/ Len(a) < Len(b) /\ SubSeq(b, 1, Len(a)) = a
    \/ \E k \in 1..Min({Len(a), Len(b)}) :
          /\ SubSeq(a, 1, k - 1) = SubSeq(b, 1, k - 1)
          /\ CodePoint(a[k]) < CodePoint(b[k])

\* sorted(), for a list of str that are all different.
RECURSIVE Sorted(_)
Sorted(S) ==
    IF S = {} THEN <<>>
    ELSE LET least == CHOOSE x \in S : \A y \in S \ {x} : StrLess(x, y)
         IN  <<least>> \o Sorted(S \ {least})

\* WORKSPACE.rglob('*'): every entry below the root, once; the directory a
\* symbolic link points to is not entered.
RGlob(fs, ds) ==
    { item \in DOMAIN fs \cup ds : IsPrefix(WORKSPACE, item) /\ item # WORKSPACE }

\* A variant that skips the scratch names in the root only: C24 must fail
\* with it.
IsNoise_RootOnly(item) ==
    item[Len(item)] \in EXCLUDE_NAMES /\ Len(item) = Len(WORKSPACE) + 1

\* if item.name in exclude_names: continue
IsNoise(item) == item[Len(item)] \in EXCLUDE_NAMES

\* list_deliverables
ListDeliverables(fs, ds) ==
    Sorted({ RelativeTo(item, WORKSPACE) :
                item \in { i \in RGlob(fs, ds) :
                             /\ i \in DOMAIN fs
                             /\ ~IsNoise(i)
                             /\ PathSuffix(i[Len(i)]) \in EXTENSIONS } })

InitDeliverables ==
    /\ linkPresent \in BOOLEAN
    /\ procs = 0
    /\ ShellIdle
    /\ \E S \in WorkspaceFiles :
          /\ files = [q \in DOMAIN InitialFiles \cup {WORKSPACE \o c : c \in S} |->
                         IF q \in DOMAIN InitialFiles THEN InitialFiles[q]
                         ELSE <<"o","k">>]
          /\ dirs = InitialDirs \cup
                       UNION { Parents(WORKSPACE \o c) : c \in S }
    /\ fCall = <<>>
    /\ fResult = NoFileResult
    /\ fTrace = NoFileTrace
    /\ OrchIdle
    /\ DispatchIdle

\* A call of list_deliverables.
ListDeliverablesCall ==
    /\ fResult' = [NoFileResult EXCEPT !.op = "list_deliverables",
                                       !.content = ListDeliverables(files, dirs),
                                       !.success = TRUE]
    /\ UNCHANGED <<files, dirs, fCall, fTrace, envVars, shellVars, loopVars>>

NextDeliverables == ListDeliverablesCall

SpecDeliverables == InitDeliverables /\ [][NextDeliverables]_vars

(***************************************************************************)
(* orchestrator.py: Orchestrator.run_task and what it calls.               *)
(***************************************************************************)
MAX_ITERATIONS == 10
MAX_CONTINUATION_ATTEMPTS == 5

\* What one call of client.chat.completions.create can give: a finish
\* reason, or an exception ("raise").
EngineCalls == {"stop", "length", "content_filter", "raise"}

\* The calls of one turn, as far as get_complete_response gets: every call
\* but the last is cut off ("length"), and the last one ends the turn or is
\* the last continuation allowed.
EngineTurns ==
    { t \in UNION { [1..n -> EngineCalls] : n \in 1..MAX_CONTINUATION_ATTEMPTS } :
        /\ \A k \in 1..(Len(t) - 1) : t[k] = "length"
        /\ t[Len(t)] # "length" \/ Len(t) = MAX_CONTINUATION_ATTEMPTS }

\* get_complete_response on the calls of a turn: the completion status it
\* returns and the number of calls it made.
RECURSIVE CompleteResponseFrom(_, _)
CompleteResponseFrom(calls, attempts) ==
    IF attempts >= MAX_CONTINUATION_ATTEMPTS
    THEN [status |-> "max_continuations", calls |-> attempts]
    ELSE LET finish_reason == calls[attempts + 1]
         IN  IF finish_reason = "raise"
             THEN [status |-> "error", calls |-> attempts + 1]
             ELSE IF finish_reason = "stop"
             THEN [status |-> "complete", calls |-> attempts + 1]
             ELSE IF finish_reason = "length"
             THEN CompleteResponseFrom(calls, attempts + 1)
             ELSE [status |-> finish_reason, calls |-> attempts + 1]

GetCompleteResponse(calls) == CompleteResponseFrom(calls, 0)

\* The completion statuses a turn can end with.
CompletionStatuses == { GetCompleteResponse(calls).status : calls \in EngineTurns }

\* The commands an engine response can list, and the lists.
OrchCommands == { <<"l","s">>, <<"r","m"," ","x">> }
CommandLists == UNION { [1..n -> OrchCommands] : n \in 0..MaxCommands }
Reasonings == { "reason one", "reason two" }

\* How a process started by execute_command can end: "exit0", "exit1" (the
\* process exits), "timeout" (subprocess.TimeoutExpired), "oserror" (no
\* process could be created).
CommandOutcomes == { "exit0", "exit1", "timeout", "oserror" }

\* execute_command: the returncode of the result for an outcome.
ExecuteCommandReturncode(outcome) ==
    IF outcome = "exit0" THEN 0
    ELSE IF outcome = "timeout" THEN 124
    ELSE 1

\* A variant that calls every process that exited a success: C33 must fail
\* with it.
ExecuteCommandSuccess_Exited(outcome) == outcome \in {"exit0", "exit1"}

\* result["success"]
ExecuteCommandSuccess(outcome) == outcome = "exit0"

\* A variant of the loop that is one iteration short: C7 must fail with it.
LoopContinues_OneShort(i) == i < MAX_ITERATIONS - 1

\* for self.iteration in range(1, MAX_ITERATIONS + 1): another iteration follows.
LoopContinues(i) == i < MAX_ITERATIONS

\* A variant in which a failed engine call returns at once: C8 must fail
\* with it.
EngineErrorExit_Return == "returned"

\* Where "break" on a failed engine call leads (line 321).
EngineErrorExit == "after_loop"

\* A variant without the exception for a complete session: C10 must fail
\* with it.
FinalStatus_Unguarded(i, status) ==
    IF i >= MAX_ITERATIONS THEN "max_iterations" ELSE status

\* Lines 432-433: the status after the handling of the iteration limit.
FinalStatus(i, status) ==
    IF i >= MAX_ITERATIONS /\ status # "complete" THEN "max_iterations" ELSE status

InitOrch ==
    /\ linkPresent = FALSE
    /\ procs = 0
    /\ ShellIdle
    /\ FilesIdle
    /\ EngineIdle
    /\ DispatchIdle
    /\ oPc = "created"
    /\ iteration = 0
    /\ mdStatus = "unset"
    /\ blockReason = "unset"
    /\ totalCommands = 0
    /\ failedCommands = 0
    /\ sessionJson = NoSessionJson
    /\ finalizeCount = 0
    /\ oSpawned = {}
    /\ lastResponse = NoResponse
    /\ allContinueEmpty = TRUE
    /\ iterationRecords = NoRecords

OrchFrame ==
    UNCHANGED <<envVars, shellVars, fileVars, engineVars, dispatchVars, sessionVars>>

\* run_task up to the loop, lines 268-304: the system prompt is read, or
\* the process exits.
StartTask ==
    /\ oPc = "created"
    /\ \/ oPc' = "loop"
       \/ oPc' = "exited"
    /\ UNCHANGED <<iteration, mdStatus, blockReason, totalCommands, failedCommands,
                   sessionJson, finalizeCount, oSpawned, lastResponse,
                   allContinueEmpty,
                   iterationRecords>>
    /\ OrchFrame

\* _log_iteration: the three files NNN_reasoning.txt, NNN_commands.sh and
\* NNN_output.txt of the iteration number are written. run_task calls it at
\* most once for a number (line 404, with self.iteration, which line 306
\* has just raised), so the number is one that had no files.
LogIteration(records, iteration_num) == records + 1

\* The end of an iteration that neither breaks nor fails: the for statement
\* takes the next number or is exhausted.
NextPc(i) == IF LoopContinues(i) THEN "loop" ELSE "after_loop"

\* An iteration in which get_complete_response reports "error", lines 313-321.
IterEngineError ==
    /\ oPc = "loop"
    /\ \E calls \in EngineTurns :
          /\ GetCompleteResponse(calls).status = "error"
          /\ lastResponse' = [NoResponse EXCEPT !.kind = "engine_error",
                                                !.calls = calls]
    /\ iteration' = iteration + 1
    /\ oPc' = EngineErrorExit
    /\ allContinueEmpty' = FALSE
    /\ UNCHANGED iterationRecords
    /\ UNCHANGED <<mdStatus, blockReason, totalCommands, failedCommands,
                   sessionJson, finalizeCount, oSpawned>>
    /\ OrchFrame

\* An iteration whose response is not JSON, lines 326-342.
IterInvalidJson ==
    /\ oPc = "loop"
    /\ \E cs \in CompletionStatuses : cs # "error"
    /\ iteration' = iteration + 1
    /\ oPc' = NextPc(iteration')
    /\ lastResponse' = [NoResponse EXCEPT !.kind = "invalid_json"]
    /\ allContinueEmpty' = FALSE
    /\ UNCHANGED iterationRecords
    /\ UNCHANGED <<mdStatus, blockReason, totalCommands, failedCommands,
                   sessionJson, finalizeCount, oSpawned>>
    /\ OrchFrame

\* An iteration whose response is JSON but not an object: action.get raises
\* and the handler of lines 422-429 takes over.
IterNotAnObject ==
    /\ oPc = "loop"
    /\ \E cs \in CompletionStatuses : cs # "error"
    /\ iteration' = iteration + 1
    /\ oPc' = NextPc(iteration')
    /\ lastResponse' = [NoResponse EXCEPT !.kind = "not_an_object"]
    /\ allContinueEmpty' = FALSE
    /\ UNCHANGED iterationRecords
    /\ UNCHANGED <<mdStatus, blockReason, totalCommands, failedCommands,
                   sessionJson, finalizeCount, oSpawned>>
    /\ OrchFrame

\* A variant that runs the commands whatever the status: C34 must fail with
\* it.
CommandsToRun_Always(status, commands) == commands

\* The commands of a response that reach the for statement of l.382: none
\* when the status is "complete" or "blocked" (the break statements of l.361
\* and l.370), all of them otherwise.
CommandsToRun(status, commands) ==
    IF status \in {"complete", "blocked"} THEN <<>> ELSE commands

\* An iteration whose response has status "complete", lines 356-361.
IterComplete ==
    /\ oPc = "loop"
    /\ \E cs \in CompletionStatuses : cs # "error"
    /\ \E r \in Reasonings, commands \in CommandLists :
          /\ iteration' = iteration + 1
          /\ mdStatus' = "complete"
          /\ oPc' = "after_loop"
          /\ lastResponse' = [NoResponse EXCEPT !.kind = "action",
                                                !.status = "complete",
                                                !.reasoning = r,
                                                !.ignored = commands]
          /\ allContinueEmpty' = FALSE
          /\ UNCHANGED iterationRecords
          /\ \E run \in {CommandsToRun("complete", commands)} :
             \E outcomes \in [DOMAIN run -> CommandOutcomes] :
                /\ totalCommands' = totalCommands + Len(run)
                /\ failedCommands' = failedCommands +
                      Cardinality({k \in DOMAIN run :
                                      ~ExecuteCommandSuccess(outcomes[k])})
                /\ oSpawned' = oSpawned \cup
                      {run[k] : k \in {n \in DOMAIN run : outcomes[n] # "oserror"}}
    /\ UNCHANGED <<blockReason, sessionJson, finalizeCount>>
    /\ OrchFrame

\* An iteration whose response has status "blocked", lines 363-370.
IterBlocked ==
    /\ oPc = "loop"
    /\ \E cs \in CompletionStatuses : cs # "error"
    /\ \E r \in Reasonings, commands \in CommandLists :
          /\ iteration' = iteration + 1
          /\ mdStatus' = "blocked"
          /\ blockReason' = r
          /\ oPc' = "after_loop"
          /\ lastResponse' = [NoResponse EXCEPT !.kind = "action",
                                                !.status = "blocked",
                                                !.reasoning = r,
                                                !.ignored = commands]
          /\ allContinueEmpty' = FALSE
          /\ UNCHANGED iterationRecords
          /\ \E run \in {CommandsToRun("blocked", commands)} :
             \E outcomes \in [DOMAIN run -> CommandOutcomes] :
                /\ totalCommands' = totalCommands + Len(run)
                /\ failedCommands' = failedCommands +
                      Cardinality({k \in DOMAIN run :
                                      ~ExecuteCommandSuccess(outcomes[k])})
                /\ oSpawned' = oSpawned \cup
                      {run[k] : k \in {n \in DOMAIN run : outcomes[n] # "oserror"}}
    /\ UNCHANGED <<sessionJson, finalizeCount>>
    /\ OrchFrame

\* An iteration whose response has any other status, lines 372-420: the
\* commands are executed one after the other by execute_command, which
\* hands each to a shell (subprocess.run(command, shell=True)).
IterContinue ==
    /\ oPc = "loop"
    /\ \E cs \in CompletionStatuses : cs # "error"
    /\ \E listed \in CommandLists :
       \E commands \in {CommandsToRun("continue", listed)} :
       \E outcomes \in [DOMAIN commands -> CommandOutcomes] :
          /\ iteration' = iteration + 1
          /\ totalCommands' = totalCommands + Len(commands)
          /\ failedCommands' = failedCommands +
                Cardinality({k \in DOMAIN commands :
                                ~ExecuteCommandSuccess(outcomes[k])})
          /\ oSpawned' = oSpawned \cup
                {commands[k] : k \in {n \in DOMAIN commands : outcomes[n] # "oserror"}}
          /\ oPc' = NextPc(iteration')
          /\ lastResponse' = [NoResponse EXCEPT !.kind = "action",
                                              !.status = "continue"]
          /\ allContinueEmpty' = (allContinueEmpty /\ commands = <<>>)
          /\ iterationRecords' = LogIteration(iterationRecords, iteration')
    /\ UNCHANGED <<mdStatus, blockReason, sessionJson, finalizeCount>>
    /\ OrchFrame

\* Lines 431-493: the iteration limit is handled, the metadata is finalized,
\* the deliverables are copied, session.json and the report are written and
\* the summary is built (self.metadata['status'] raises KeyError when no
\* status was ever set).
Finalize ==
    /\ oPc = "after_loop"
    /\ mdStatus' = FinalStatus(iteration, mdStatus)
    /\ finalizeCount' = finalizeCount + 1
    /\ sessionJson' = [written |-> TRUE, status |-> mdStatus',
                       block_reason |-> blockReason,
                       total_commands |-> totalCommands,
                       failed_commands |-> failedCommands,
                       deliverables |-> TRUE, iterations |-> iteration]
    /\ oPc' = IF mdStatus' = "unset" THEN "raised" ELSE "returned"
    /\ UNCHANGED <<iteration, blockReason, totalCommands, failedCommands,
                   oSpawned, lastResponse, allContinueEmpty,
                   iterationRecords>>
    /\ OrchFrame

NextOrch ==
    \/ StartTask
    \/ IterEngineError
    \/ IterInvalidJson
    \/ IterNotAnObject
    \/ IterComplete
    \/ IterBlocked
    \/ IterContinue
    \/ Finalize

SpecOrch == InitOrch /\ [][NextOrch]_vars

(***************************************************************************)
(* orchestrator.py: get_complete_response, call by call.                   *)
(***************************************************************************)
\* The contents one engine call can return.
EngineContents == { <<>>, <<"a">>, <<"b", "c">> }

\* What one engine call can give: a response with content and finish
\* reason, or an exception.
EngineRaises == [content |-> <<>>, finish_reason |-> "raise"]
EngineResponses ==
    [content : EngineContents, finish_reason : {"stop", "length", "content_filter"}]
        \cup {EngineRaises}

\* A variant that keeps only the newest fragment: C14 must fail with it.
Accumulate_Newest(accumulated, content) == content

\* accumulated_response += content
Accumulate(accumulated, content) == accumulated \o content

\* A variant that allows one call more: C15 must fail with it.
BudgetLeft_OneMore(attempts) == attempts <= MAX_CONTINUATION_ATTEMPTS

\* while attempts < max_continuation_attempts
BudgetLeft(attempts) == attempts < MAX_CONTINUATION_ATTEMPTS

InitEngine ==
    /\ linkPresent = FALSE
    /\ procs = 0
    /\ ShellIdle
    /\ FilesIdle
    /\ DispatchIdle
    /\ oPc = "idle"
    /\ iteration = 0
    /\ mdStatus = "unset"
    /\ blockReason = "unset"
    /\ totalCommands = 0
    /\ failedCommands = 0
    /\ sessionJson = NoSessionJson
    /\ finalizeCount = 0
    /\ oSpawned = {}
    /\ lastResponse = NoResponse
    /\ allContinueEmpty = TRUE
    /\ iterationRecords = NoRecords
    /\ gPc = "calling"
    /\ gAttempts = 0
    /\ gAccumulated = <<>>
    /\ gFragments = <<>>
    /\ gCalls = 0
    /\ gAppended = <<>>
    /\ gResult = NoEngineResult

EngineFrame ==
    UNCHANGED <<envVars, shellVars, fileVars, orchVars, dispatchVars, sessionVars>>

\* One pass of the while loop, lines 213-259: the engine is called and
\* either raises, or its content is accumulated and its finish reason
\* decides how to go on.
EngineCall ==
    /\ gPc = "calling"
    /\ BudgetLeft(gAttempts)
    /\ gCalls' = gCalls + 1
    /\ \E r \in EngineResponses :
          IF r.finish_reason = "raise"
          THEN /\ gPc' = "returned"
               /\ gResult' = [text |-> gAccumulated, none |-> gAccumulated = <<>>,
                              status |-> "error"]
               /\ UNCHANGED <<gAttempts, gAccumulated, gFragments, gAppended>>
          ELSE /\ gAccumulated' = Accumulate(gAccumulated, r.content)
               /\ gFragments' = Append(gFragments, r.content)
               /\ IF r.finish_reason = "stop"
                  THEN /\ gPc' = "returned"
                       /\ gResult' = [text |-> gAccumulated', none |-> FALSE,
                                      status |-> "complete"]
                       /\ UNCHANGED <<gAttempts, gAppended>>
                  ELSE IF r.finish_reason = "length"
                  THEN /\ gAppended' = gAppended \o
                              << [role |-> "assistant", content |-> r.content],
                                 [role |-> "user", content |-> <<"Continue.">>] >>
                       /\ gAttempts' = gAttempts + 1
                       /\ UNCHANGED <<gPc, gResult>>
                  ELSE /\ gPc' = "returned"
                       /\ gResult' = [text |-> gAccumulated', none |-> FALSE,
                                      status |-> r.finish_reason]
                       /\ UNCHANGED <<gAttempts, gAppended>>
    /\ EngineFrame

\* Lines 261-262: the while loop has run out of attempts.
EngineBudgetExhausted ==
    /\ gPc = "calling"
    /\ ~BudgetLeft(gAttempts)
    /\ gPc' = "returned"
    /\ gResult' = [text |-> gAccumulated, none |-> FALSE,
                   status |-> "max_continuations"]
    /\ UNCHANGED <<gAttempts, gAccumulated, gFragments, gCalls, gAppended>>
    /\ EngineFrame

NextEngine == EngineCall \/ EngineBudgetExhausted

SpecEngine == InitEngine /\ [][NextEngine]_vars

(***************************************************************************)
(* run_task after get_complete_response has returned, lines 316-429: what  *)
(* the iteration adds to the messages that the next engine call is given.  *)
(***************************************************************************)
\* What run_task makes of the content: it is not JSON (l.336-342), it is an
\* action that goes on (l.372-420), or handling it raises (l.422-429).
ContentKinds == {"invalid_json", "continue", "raises"}

\* The messages run_task appends for a content of each kind.
RunTaskMessages(kind, content) ==
    IF kind = "invalid_json"
    THEN << [role |-> "assistant", content |-> content],
            [role |-> "user", content |-> <<"ERROR: You must respond with valid JSON only. No other text.">>] >>
    ELSE IF kind = "continue"
    THEN << [role |-> "assistant", content |-> content],
            [role |-> "user", content |-> <<"Command results:">>] >>
    ELSE << [role |-> "user", content |-> <<"System error:">>] >>

\* The rest of the iteration: the messages are appended and the for
\* statement goes to the next turn. The status "error" leaves the loop at
\* l.320-321.
RunTaskAppends ==
    /\ gPc = "returned"
    /\ gResult.status # "error"
    /\ \E kind \in ContentKinds :
          gAppended' = gAppended \o RunTaskMessages(kind, gResult.text)
    /\ gPc' = "next_turn"
    /\ UNCHANGED <<gAttempts, gAccumulated, gFragments, gCalls, gResult>>
    /\ EngineFrame

NextReplay == EngineCall \/ EngineBudgetExhausted \/ RunTaskAppends

SpecReplay == InitEngine /\ [][NextReplay]_vars

\* The call of the engine returns or raises, and the function goes on.
SpecEngineLive == SpecEngine /\ WF_vars(NextEngine)

(***************************************************************************)
(* The dispatch of one turn's requests, step by step:                      *)
(* orchestrator.py, run_task lines 372-420, and vps_agent.py, run_task.    *)
(***************************************************************************)
\* The lists of requests one engine response can hold.
RequestLists(S) == UNION { [1..n -> S] : n \in 0..MaxRequests }

\* The run_shell calls the engine can ask vps_agent for: a plain command, a
\* blocked one, and a plain one with a cwd that leaves the workspace.
AgentCalls ==
    { [command |-> <<"l","s">>, cwd |-> <<>>, timeout |-> DEFAULT_TIMEOUT],
      [command |-> <<"r","m">>, cwd |-> <<>>, timeout |-> DEFAULT_TIMEOUT],
      [command |-> <<"l","s">>, cwd |-> <<".",".">>, timeout |-> DEFAULT_TIMEOUT] }

\* TOOL_IMPL: the names of the tools run_task can call.
TOOL_NAMES == {"run_shell", "run_python", "read_file", "write_file"}

\* Tool calls of the engine that vps_agent cannot carry out: a tool that is
\* not in TOOL_IMPL, arguments that are not JSON, and arguments the tool
\* does not accept (an unknown keyword).
MalformedCalls ==
    { [name |-> "no_such_tool", arguments |-> "valid"],
      [name |-> "run_shell", arguments |-> "invalid_json"],
      [name |-> "run_shell", arguments |-> "unaccepted"] }

\* What lines 190-193 raise before the tool runs: json.loads raises
\* JSONDecodeError, TOOL_IMPL[name] raises KeyError, and the call of the
\* tool with keywords it does not have raises TypeError.
DispatchError(call) ==
    IF call \in AgentCalls THEN "none"
    ELSE IF call.arguments = "invalid_json" THEN "JSONDecodeError"
    ELSE IF call.name \notin TOOL_NAMES THEN "KeyError"
    ELSE IF call.arguments = "unaccepted" THEN "TypeError"
    ELSE "none"

\* resp.output_text
ResponseTexts == { <<>>, <<" ">>, <<" ", "o", "k", " ">> }

NoTextOutput == <<"(no text output)">>
MaxTurnsTail == <<"Max turns reached without the model finalizing.">>

\* (resp.output_text or "").strip() or "(no text output)"
FinalText(output_text) ==
    IF Strip(output_text) = <<>> THEN NoTextOutput ELSE Strip(output_text)

\* What run_task returns, lines 176-186 and 207-218: the transcript block
\* when there is one to include, the text, and the deliverables section of
\* _format_deliverables.
AgentReturn(kind, text, include_transcript, transcript) ==
    [kind |-> kind,
     transcript |-> IF include_transcript /\ transcript > 0 THEN transcript ELSE 0,
     text |-> text,
     deliverables |-> TRUE]

\* A variant that goes on to the next turn after a response without tool
\* calls: C21 must fail with it.
AfterResponse_NextTurn(calls) == IF calls = <<>> THEN "engine" ELSE "dispatching"

\* if not tool_calls: ... return; otherwise the calls are executed.
AfterResponse(calls) == IF calls = <<>> THEN "returned" ELSE "dispatching"

\* max_turns
MaxTurnsValues == {-1, 0, 1, 2}

\* resp.output: one function_call item for each call, each with the call_id
\* the engine gave it (its place in the response stands for it), and a
\* message item at the end when the response has text as well.
ResponseOutput(calls, with_text) ==
    [i \in DOMAIN calls |-> [type |-> "function_call", call_id |-> i]]
        \o (IF with_text THEN << [type |-> "message", call_id |-> 0] >> ELSE <<>>)

\* A variant that gives every output item the call_id of the first call: C36
\* must fail with it.
FunctionCallOutput_FirstId(call_id) ==
    [type |-> "function_call_output", call_id |-> 1]

\* The item of lines 198-204 for the call with this call_id.
FunctionCallOutput(call_id) ==
    [type |-> "function_call_output", call_id |-> call_id]

\* The lengths of what a process writes to its standard output.
OutputLengths == {0, OUTPUT_TAIL + 1}

\* execute_command: the dictionary returned for an outcome, lines 110-132.
\* The output of the process is handed on whole.
ExecuteCommandResult(command, outcome, out) ==
    [command |-> command,
     returncode |-> ExecuteCommandReturncode(outcome),
     stdout |-> IF outcome \in {"exit0", "exit1"} THEN out ELSE 0,
     success |-> ExecuteCommandSuccess(outcome)]

\* A variant that puts the newest result first: C16 must fail with it.
AppendResult_First(results, r) == <<r>> \o results

\* results.append(result), items.append(...)
AppendResult(results, r) == Append(results, r)

\* A variant in which a failed command ends the turn: C17 must fail with it.
AfterResult_StopOnFailure(returncode) ==
    IF returncode = 0 THEN "dispatching" ELSE "raised"

\* Where the for loop over the requests goes once a result is in: to the
\* next request, whatever the result.
AfterResult(returncode) == "dispatching"

Started(i) == [event |-> "start", index |-> i]
Finished(i) == [event |-> "finish", index |-> i]

InitDispatch ==
    /\ linkPresent = FALSE
    /\ procs = 0
    /\ ShellIdle
    /\ FilesIdle
    /\ EngineIdle
    /\ mdStatus = "unset"
    /\ blockReason = "unset"
    /\ totalCommands = 0
    /\ failedCommands = 0
    /\ sessionJson = NoSessionJson
    /\ finalizeCount = 0
    /\ oSpawned = {}
    /\ allContinueEmpty = TRUE
    /\ SessionsIdle
    /\ dEvents = <<>>
    /\ dResults = <<>>
    /\ dFeedback = <<>>
    /\ \/ \* Orchestrator.run_task has parsed a response with commands
          /\ dLoop = "orchestrator"
          /\ oPc = "executing"
          /\ iteration \in 1..MAX_ITERATIONS
          /\ iterationRecords = iteration - 1
          /\ aOut = NoAgentOut
          /\ lastResponse = [NoResponse EXCEPT !.kind = "action",
                                               !.status = "continue"]
          /\ dRequests \in RequestLists(OrchCommands)
          /\ dNext = 1
          /\ dPc = "dispatching"
          /\ dTurn = 0
          /\ dMaxTurns = 0
       \/ \* vps_agent.run_task is about to begin its first turn
          /\ dLoop = "agent"
          /\ oPc = "idle"
          /\ iteration = 0
          /\ iterationRecords = NoRecords
          /\ \E b \in BOOLEAN : aOut = [NoAgentOut EXCEPT !.include_transcript = b]
          /\ lastResponse = NoResponse
          /\ dRequests = <<>>
          /\ dNext = 0
          /\ dPc = "engine"
          /\ dTurn = 0
          /\ dMaxTurns \in MaxTurnsValues

\* orchestrator.py lines 382-383: the next command is counted and handed to
\* execute_command.
OrchStartCommand ==
    /\ dLoop = "orchestrator"
    /\ dPc = "dispatching"
    /\ dNext <= Len(dRequests)
    /\ totalCommands' = totalCommands + 1
    /\ dEvents' = Append(dEvents, Started(dNext))
    /\ dPc' = "running"
    /\ UNCHANGED <<oPc, iteration, mdStatus, blockReason, failedCommands, sessionJson,
                   finalizeCount, oSpawned, lastResponse, allContinueEmpty,
                   iterationRecords>>
    /\ UNCHANGED <<aOut, dLoop, dTurn, dMaxTurns, dRequests, dNext, dResults, dFeedback>>
    /\ UNCHANGED <<envVars, shellVars, fileVars, engineVars, sessionVars>>

\* orchestrator.py lines 384-389: execute_command returns and the result is
\* appended.
OrchFinishCommand ==
    /\ dLoop = "orchestrator"
    /\ dPc = "running"
    /\ \E outcome \in CommandOutcomes, out \in OutputLengths :
          LET result == ExecuteCommandResult(dRequests[dNext], outcome, out)
          IN  /\ dResults' = AppendResult(dResults,
                                [of |-> dNext, request |-> dRequests[dNext],
                                 result |-> result])
              /\ failedCommands' = IF result.success THEN failedCommands
                                   ELSE failedCommands + 1
              /\ oSpawned' = IF outcome = "oserror" THEN oSpawned
                             ELSE oSpawned \cup {dRequests[dNext]}
              /\ dPc' = AfterResult(result.returncode)
    /\ dEvents' = Append(dEvents, Finished(dNext))
    /\ dNext' = dNext + 1
    /\ UNCHANGED <<oPc, iteration, mdStatus, blockReason, totalCommands, sessionJson,
                   finalizeCount, lastResponse, allContinueEmpty,
                   iterationRecords>>
    /\ UNCHANGED <<aOut, dLoop, dTurn, dMaxTurns, dRequests, dFeedback>>
    /\ UNCHANGED <<envVars, shellVars, fileVars, engineVars, sessionVars>>

\* orchestrator.py lines 401-420: the iteration is logged and the results go
\* to the engine; the for statement takes the next iteration or ends.
OrchEndIteration ==
    /\ dLoop = "orchestrator"
    /\ dPc = "dispatching"
    /\ dNext > Len(dRequests)
    /\ dFeedback' = dResults
    /\ dPc' = "fed_back"
    /\ oPc' = NextPc(iteration)
    /\ allContinueEmpty' = (allContinueEmpty /\ dRequests = <<>>)
    /\ iterationRecords' = LogIteration(iterationRecords, iteration)
    /\ UNCHANGED <<iteration, mdStatus, blockReason, totalCommands, failedCommands,
                   sessionJson, finalizeCount, oSpawned, lastResponse>>
    /\ UNCHANGED <<aOut, dLoop, dTurn, dMaxTurns, dRequests, dNext, dEvents, dResults>>
    /\ UNCHANGED <<envVars, shellVars, fileVars, engineVars, sessionVars>>

AgentFrame == UNCHANGED <<linkPresent, fileVars, orchVars, engineVars, sessionVars>>

\* vps_agent.py lines 162-186: the engine is called; the call raises, or
\* the response holds no tool call and run_task returns, or it holds some.
AgentEngineTurn ==
    /\ dLoop = "agent"
    /\ dPc = "engine"
    /\ dTurn < dMaxTurns
    /\ dTurn' = dTurn + 1
    /\ \/ /\ dPc' = "raised"
          /\ aOut' = [aOut EXCEPT !.engine_calls = @ + 1, !.raised_by = "engine"]
          /\ UNCHANGED <<dRequests, dNext, dEvents, dResults, dFeedback>>
       \/ \E calls \in RequestLists(AgentCalls \cup MalformedCalls) :
             /\ dRequests' = calls
             /\ dNext' = 1
             /\ dEvents' = <<>>
             /\ dResults' = <<>>
             /\ dFeedback' = <<>>
             /\ dPc' = AfterResponse(calls)
             /\ IF calls = <<>>
                THEN \E text \in ResponseTexts :
                        aOut' = [aOut EXCEPT
                                   !.engine_calls = @ + 1,
                                   !.response_text = text,
                                   !.items = ResponseOutput(calls, text # <<>>),
                                   !.returned = AgentReturn("final", FinalText(text),
                                                            aOut.include_transcript,
                                                            aOut.transcript)]
                ELSE \E with_text \in BOOLEAN :
                        aOut' = [aOut EXCEPT
                                   !.engine_calls = @ + 1,
                                   !.items = ResponseOutput(calls, with_text)]
    /\ UNCHANGED <<dLoop, dMaxTurns, procs, shellVars>>
    /\ AgentFrame

\* vps_agent.py lines 204-218: max_turns turns are over.
AgentMaxTurns ==
    /\ dLoop = "agent"
    /\ dPc = "engine"
    /\ dTurn >= dMaxTurns
    /\ dPc' = "returned"
    /\ aOut' = [aOut EXCEPT !.returned = AgentReturn("max_turns", MaxTurnsTail,
                                                     aOut.include_transcript,
                                                     aOut.transcript)]
    /\ UNCHANGED <<dLoop, dTurn, dMaxTurns, dRequests, dNext, dEvents, dResults,
                   dFeedback, procs, shellVars>>
    /\ AgentFrame

\* vps_agent.py lines 189-193: the next tool call is handed to run_shell.
AgentStartCall ==
    /\ dLoop = "agent"
    /\ dPc = "dispatching"
    /\ dNext <= Len(dRequests)
    /\ DispatchError(dRequests[dNext]) = "none"
    /\ shCall' = dRequests[dNext]
    /\ shPc' = "called"
    /\ shResult' = NoResult
    /\ shTrace' = NoTrace
    /\ dEvents' = Append(dEvents, Started(dNext))
    /\ dPc' = "running"
    /\ UNCHANGED <<aOut, dLoop, dTurn, dMaxTurns, dRequests, dNext, dResults, dFeedback, procs>>
    /\ AgentFrame

\* vps_agent.py lines 193-203: run_shell has returned and its result is
\* appended to the items the engine gets.
AgentFinishCall ==
    /\ dLoop = "agent"
    /\ dPc = "running"
    /\ shPc = "returned"
    /\ shPc' = "idle"
    /\ dEvents' = Append(dEvents, Finished(dNext))
    /\ dResults' = AppendResult(dResults, [of |-> dNext, request |-> dRequests[dNext],
                                           result |-> shResult])
    /\ dFeedback' = AppendResult(dFeedback, [of |-> dNext, request |-> dRequests[dNext],
                                             result |-> shResult])
    /\ dNext' = dNext + 1
    /\ dPc' = AfterResult(shResult.returncode)
    /\ aOut' = [aOut EXCEPT !.transcript = IF aOut.include_transcript THEN @ + 1 ELSE @,
                            !.items = Append(@, FunctionCallOutput(dNext))]
    /\ UNCHANGED <<dLoop, dTurn, dMaxTurns, dRequests, procs, shCall, shResult, shTrace>>
    /\ AgentFrame

\* vps_agent.py lines 190-193: the arguments of the next tool call cannot be
\* parsed, or its tool cannot be found or called; nothing catches what is
\* raised and no tool runs.
AgentCallMalformed ==
    /\ dLoop = "agent"
    /\ dPc = "dispatching"
    /\ dNext <= Len(dRequests)
    /\ DispatchError(dRequests[dNext]) # "none"
    /\ dPc' = "raised"
    /\ aOut' = [aOut EXCEPT !.raised_by = DispatchError(dRequests[dNext])]
    /\ UNCHANGED <<dLoop, dTurn, dMaxTurns, dRequests, dNext, dEvents, dResults,
                   dFeedback, procs, shellVars>>
    /\ AgentFrame

\* vps_agent.py line 193: run_shell has raised; nothing catches it.
AgentCallRaises ==
    /\ dLoop = "agent"
    /\ dPc = "running"
    /\ shPc = "raised"
    /\ dPc' = "raised"
    /\ aOut' = [aOut EXCEPT !.raised_by = "tool"]
    /\ UNCHANGED <<dLoop, dTurn, dMaxTurns, dRequests, dNext, dEvents, dResults,
                   dFeedback, procs, shellVars>>
    /\ AgentFrame

\* vps_agent.py line 188: the for loop over the tool calls is done and the
\* loop over the turns goes on.
AgentEndTurn ==
    /\ dLoop = "agent"
    /\ dPc = "dispatching"
    /\ dNext > Len(dRequests)
    /\ dPc' = "engine"
    /\ UNCHANGED <<aOut, dLoop, dTurn, dMaxTurns, dRequests, dNext, dEvents, dResults,
                   dFeedback, procs, shellVars>>
    /\ AgentFrame

NextDispatch ==
    \/ OrchStartCommand
    \/ OrchFinishCommand
    \/ OrchEndIteration
    \/ AgentEngineTurn
    \/ AgentMaxTurns
    \/ AgentStartCall
    \/ AgentCallMalformed
    \/ RunShell
    \/ AgentFinishCall
    \/ AgentCallRaises
    \/ AgentEndTurn

SpecDispatch == InitDispatch /\ [][NextDispatch]_vars

(***************************************************************************)
(* The commands of one iteration of Orchestrator.run_task, counted one by  *)
(* one, and the finalization that follows the last iteration.              *)
(***************************************************************************)
InitCounts ==
    /\ InitDispatch
    /\ dLoop = "orchestrator"

NextCounts ==
    \/ OrchStartCommand
    \/ OrchFinishCommand
    \/ OrchEndIteration
    \/ Finalize

SpecCounts == InitCounts /\ [][NextCounts]_vars

(***************************************************************************)
(* run_python, tools.py lines 177-201, called by two sessions that share   *)
(* the workspace, step by step.                                            *)
(***************************************************************************)
Sessions == {1, 2}

\* filename = "snippet.py"
DEFAULT_FILENAME == <<"s","n","i","p","p","e","t",".","p","y">>
SnippetPath == Append(WORKSPACE, DEFAULT_FILENAME)

\* The code the sessions call run_python with.
SessionCodes == { <<"p","1">>, <<"p","2">> }

NoCode == <<"no code">>

InitRace ==
    /\ linkPresent = FALSE
    /\ procs = 0
    /\ ShellIdle
    /\ FilesIdle
    /\ OrchIdle
    /\ NoDispatch
    /\ ChatIdle
    /\ CodingIdle
    /\ \E codes \in [Sessions -> SessionCodes] :
          pySessions = [s \in Sessions |->
                          [pc |-> "called", code |-> codes[s], executed |-> NoCode,
                           returncode |-> -1]]

RaceFrame ==
    UNCHANGED <<envVars, shellVars, dirs, fCall, fResult, fTrace, orchVars,
                engineVars, dispatchVars, conversation_history, chatResult,
                codingVars>>

\* p.write_text(code), first half: open(p, "w") creates or empties the file.
PyOpen(s) ==
    /\ pySessions[s].pc = "called"
    /\ files' = WithFile(SnippetPath, <<>>)
    /\ pySessions' = [pySessions EXCEPT ![s].pc = "opened"]
    /\ RaceFrame

\* p.write_text(code), second half: the code is written and the file closed.
PyWrite(s) ==
    /\ pySessions[s].pc = "opened"
    /\ files' = WithFile(SnippetPath, Utf8Encode(pySessions[s].code))
    /\ pySessions' = [pySessions EXCEPT ![s].pc = "written"]
    /\ RaceFrame

\* A variant in which the interpreter is given the code of the call itself:
\* C28 must fail with it.
Interpreted_OwnCode(s, fs) == Utf8Encode(pySessions[s].code)

\* What python3 runs when it is started with the path: what the file holds
\* at that moment.
Interpreted(s, fs) == fs[SnippetPath]

\* subprocess.run(["python3", str(p)], ...): the interpreter starts and
\* reads the file.
PyStart(s) ==
    /\ pySessions[s].pc = "written"
    /\ pySessions' = [pySessions EXCEPT ![s].pc = "running",
                                        ![s].executed = Interpreted(s, files)]
    /\ UNCHANGED files
    /\ RaceFrame

\* The process ends or is killed at the timeout, and run_python returns.
PyReturn(s) ==
    /\ pySessions[s].pc = "running"
    /\ \E rc \in {0, 1, 124} :
          pySessions' = [pySessions EXCEPT ![s].pc = "returned",
                                          ![s].returncode = rc]
    /\ UNCHANGED files
    /\ RaceFrame

NextRace ==
    \/ \E s \in Sessions : PyOpen(s)
    \/ \E s \in Sessions : PyWrite(s)
    \/ \E s \in Sessions : PyStart(s)
    \/ \E s \in Sessions : PyReturn(s)

SpecRace == InitRace /\ [][NextRace]_vars

(***************************************************************************)
(* CodingAgent.call_chatgpt, coding_agent.py lines 89-132.                 *)
(***************************************************************************)
\* if len(self.conversation_history) > 20
HISTORY_LIMIT == 20

\* The content of the assistant message of a response that could be parsed.
AssistantContents == { <<>>, <<"a">> }
UserMessages == { <<"u">> }

\* The exceptions the two handlers of call_chatgpt catch, and one they do
\* not (result["choices"][0]["message"] is null: TypeError).
CaughtExceptions == {"RequestException", "KeyError", "IndexError"}
UncaughtExceptions == {"TypeError"}

\* A variant that keeps one message less: C29 must fail with it.
TrimHistory_OneLess(history) ==
    IF Len(history) > HISTORY_LIMIT
    THEN SubSeq(history, Len(history) - HISTORY_LIMIT + 2, Len(history))
    ELSE history

\* self.conversation_history[-20:] when it holds more than 20 messages
TrimHistory(history) ==
    IF Len(history) > HISTORY_LIMIT
    THEN SubSeq(history, Len(history) - HISTORY_LIMIT + 1, Len(history))
    ELSE history

InitChat ==
    /\ linkPresent = FALSE
    /\ procs = 0
    /\ ShellIdle
    /\ FilesIdle
    /\ OrchIdle
    /\ NoDispatch
    /\ PythonIdle
    /\ ChatIdle
    /\ CodingIdle

ChatFrame ==
    UNCHANGED <<envVars, shellVars, fileVars, orchVars, engineVars, dispatchVars,
                pySessions, codingVars>>

\* call_chatgpt(user_message) with a response that is parsed: the two
\* messages are appended and the history is cut to its last 20.
CallChatgptOk ==
    /\ chatResult.outcome \notin UncaughtExceptions
    /\ \E user_message \in UserMessages, assistant_message \in AssistantContents :
          /\ conversation_history' =
                TrimHistory(conversation_history \o
                    << [role |-> "user", content |-> user_message],
                       [role |-> "assistant", content |-> assistant_message] >>)
          /\ chatResult' = [outcome |-> "ok", returned |-> assistant_message]
    /\ ChatFrame

\* call_chatgpt(user_message) with a request that fails or a response that
\* lacks a key: the handlers of lines 127-132 return "".
CallChatgptFails ==
    /\ chatResult.outcome \notin UncaughtExceptions
    /\ \E e \in CaughtExceptions :
          chatResult' = [outcome |-> e, returned |-> <<>>]
    /\ UNCHANGED conversation_history
    /\ ChatFrame

\* call_chatgpt(user_message) with a response that raises what no handler
\* catches: the exception leaves call_chatgpt and ends the agent.
CallChatgptRaises ==
    /\ chatResult.outcome \notin UncaughtExceptions
    /\ \E e \in UncaughtExceptions :
          chatResult' = [outcome |-> e, returned |-> <<>>]
    /\ UNCHANGED conversation_history
    /\ ChatFrame

NextChat == CallChatgptOk \/ CallChatgptFails \/ CallChatgptRaises

SpecChat == InitChat /\ [][NextChat]_vars

(***************************************************************************)
(* CodingAgent.run, coding_agent.py lines 300-328, over runs that share    *)
(* the state file.                                                         *)
(***************************************************************************)
\* The runs of the agent that are followed.
MaxRuns == 3

\* max_iterations of the configuration.
MaxIterationsValues == {1, 2}

\* load_state, lines 69-79: the state of the file, or a fresh state when
\* the file is missing or is not JSON.
LoadState(file) ==
    IF file.exists /\ file.valid
    THEN [iteration |-> file.iteration, task_completed |-> file.task_completed]
    ELSE FreshState

\* How save_state can end: the file is written; open() fails and the file
\* stays as it was; or open() has emptied the file and writing fails. The
\* handler of lines 86-87 logs both failures and returns.
SaveOutcomes == {"written", "open_fails", "write_fails"}

\* save_state, lines 81-87: the file afterwards.
SaveState(file, st, outcome) ==
    IF outcome = "written"
    THEN [exists |-> TRUE, valid |-> TRUE, iteration |-> st.iteration,
          task_completed |-> st.task_completed]
    ELSE IF outcome = "open_fails" THEN file
    ELSE [exists |-> TRUE, valid |-> FALSE, iteration |-> 0,
          task_completed |-> FALSE]

\* How run_iteration can end, lines 195-298: there is no task description
\* (l.200-202); the engine gave nothing (l.234-236); the response says TASK
\* COMPLETE (l.240-243); it holds no code (l.247-250); its code was executed
\* (l.252-298); or something raised on the way (call_chatgpt or execute_code).
RunIterationOutcomes(has_task) ==
    IF has_task THEN {"empty", "complete", "no_code", "executed", "raises"}
    ELSE {"no_task"}

\* What run_iteration returns.
RunIterationReturns(outcome) == outcome \in {"no_task", "complete"}

\* Whether run_iteration has called the engine.
RunIterationCallsEngine(outcome) == outcome # "no_task"

InitCoding ==
    /\ linkPresent = FALSE
    /\ procs = 0
    /\ ShellIdle
    /\ FilesIdle
    /\ OrchIdle
    /\ NoDispatch
    /\ PythonIdle
    /\ ChatIdle
    /\ stateFile = NoStateFile
    /\ state = LoadState(stateFile)
    /\ \E m \in MaxIterationsValues, t \in BOOLEAN :
          caRun = [NoRun EXCEPT !.pc = "loop", !.max_iterations = m,
                                !.has_task = t, !.runs = 1]

CodingFrame ==
    UNCHANGED <<envVars, shellVars, fileVars, orchVars, engineVars, dispatchVars,
                pySessions, conversation_history, chatResult>>

\* One pass of the while loop, lines 309-321: run_iteration, the counter,
\* save_state, and the return when run_iteration returned True.
RunLoop ==
    /\ caRun.pc = "loop"
    /\ state.iteration < caRun.max_iterations
    /\ \E outcome \in RunIterationOutcomes(caRun.has_task) :
          IF outcome = "raises"
          THEN /\ caRun' = [caRun EXCEPT !.pc = "raised",
                                         !.executed = @ + 1,
                                         !.engine_calls = @ + 1]
               /\ UNCHANGED <<state, stateFile>>
          ELSE /\ state' = [iteration |-> state.iteration + 1,
                            task_completed |->
                                state.task_completed \/ outcome = "complete"]
               /\ \E saved \in SaveOutcomes :
                     stateFile' = SaveState(stateFile, state', saved)
               /\ caRun' = [caRun EXCEPT
                     !.executed = @ + 1,
                     !.engine_calls =
                         IF RunIterationCallsEngine(outcome) THEN @ + 1 ELSE @,
                     !.pc = IF RunIterationReturns(outcome) THEN "returned" ELSE "loop",
                     !.returned = IF RunIterationReturns(outcome) THEN 0 ELSE @]
    /\ CodingFrame

\* Lines 323-326: the counter has reached max_iterations.
RunLimit ==
    /\ caRun.pc = "loop"
    /\ state.iteration >= caRun.max_iterations
    /\ caRun' = [caRun EXCEPT !.pc = "returned", !.returned = 1]
    /\ UNCHANGED <<state, stateFile>>
    /\ CodingFrame

\* main() once more, lines 331-335: a new CodingAgent loads the state and
\* run begins.
NewRun ==
    /\ caRun.pc \in {"returned", "raised"}
    /\ caRun.runs < MaxRuns
    /\ state' = LoadState(stateFile)
    /\ caRun' = [caRun EXCEPT !.pc = "loop", !.runs = @ + 1, !.engine_calls = 0,
                              !.started_at = state'.iteration, !.returned = -1]
    /\ UNCHANGED stateFile
    /\ CodingFrame

NextCoding == RunLoop \/ RunLimit \/ NewRun

SpecCoding == InitCoding /\ [][NextCoding]_vars

(***************************************************************************)
(* Properties of run_shell.                                                *)
(***************************************************************************)
\* A KEY=value assignment as a word: a non-empty key of word characters, the
\* equals sign, a non-empty value.
IsAssignmentWord(w) ==
    \E i \in 2..(Len(w) - 1) :
        /\ w[i] = "="
        /\ \A k \in 1..(i - 1) : w[k] \in WordChars

\* The primary binary of a command, from the words of the command: the
\* leading words that are assignments are dropped, and of what is left the
\* first word is taken as the executor will see it (a quoted stretch belongs
\* to its word when the command is run as an argument vector), reduced to
\* its basename.  <<>> if nothing is left.
PrimaryBinary(command) ==
    LET s      == Strip(command)
        starts == {i \in DOMAIN s : s[i] # " " /\ (i = 1 \/ s[i - 1] = " ")}
        words  == Split(s)
        lead   == {n \in DOMAIN words : \A k \in 1..n : IsAssignmentWord(words[k])}
        first  == Cardinality(lead) + 1
    IN  IF first > Len(words) THEN <<>>
        ELSE LET rest  == SubSeq(s, Nth(starts, first), Len(s))
                 lexed == ShlexSplit(rest)
             IN  IF HasShellSyntax(rest) \/ ~lexed.ok
                 THEN PathName(words[first])
                 ELSE PathName(lexed.tokens[1])

ShellCallOver == shPc \in {"returned", "raised"}

\* C1: a call of run_shell whose command has a primary binary in
\* BLOCKED_BINARIES returns a result with returncode 126, and no process
\* has been created.
C1_BlockedBinaryIsNeverRun ==
    (ShellCallOver /\ PrimaryBinary(shCall.command) \in BLOCKED_BINARIES)
        => /\ shPc = "returned"
           /\ shResult.returncode = 126
           /\ ~shTrace.spawned
           /\ procs = 0

\* A blocked binary behind an environment assignment has been refused as a
\* blocked binary.
C1_Witness ==
    /\ shPc = "returned"
    /\ PrimaryBinary(shCall.command) \in BLOCKED_BINARIES
    /\ IsAssignmentWord(Split(shCall.command)[1])
    /\ shTrace.validated = "Blocked binary"
    /\ shResult.returncode = 126

\* C3: when the validator rejects the command, for whichever rule,
\* run_shell returns returncode 126, an empty stdout and a stderr that begins
\* with "BLOCKED:", and it has neither resolved cwd nor created a process.
C3_RejectionShortCircuits ==
    (ShellCallOver /\ ValidateCommandSafety(shCall.command) # "ok")
        => /\ shPc = "returned"
           /\ shResult.returncode = 126
           /\ shResult.stdout = 0
           /\ shResult.stderr # <<>> /\ shResult.stderr[1] = "BLOCKED: "
           /\ ~shTrace.cwdResolved
           /\ ~shTrace.spawned
           /\ procs = 0

\* A rejected command called with a cwd outside the workspace has returned
\* the blocked result.
C3_Witness ==
    /\ shPc = "returned"
    /\ ValidateCommandSafety(shCall.command) = "Blocked binary"
    /\ ~SafeCwd(shCall.cwd, linkPresent).ok
    /\ shResult.returncode = 126

\* C5: run_shell called with an allowed command and a cwd that resolves
\* outside the workspace creates no process and returns an error result to
\* its caller; it does not raise.
C5_EscapingCwdReturnsError ==
    (/\ ShellCallOver
     /\ Strip(shCall.command) # <<>>
     /\ ValidateCommandSafety(shCall.command) = "ok"
     /\ ~SafeCwd(shCall.cwd, linkPresent).ok)
        => /\ shPc = "returned"
           /\ shResult.returncode # 0
           /\ ~shTrace.spawned

\* C6: when the command has not exited at its timeout, run_shell returns
\* returncode 124 with the timeout message, and none of the processes the
\* call started is running when it returns.
C6_TimeoutLeavesNothingRunning ==
    [][(shPc = "called" /\ shPc' = "returned" /\ shResult'.returncode = 124)
          => /\ shResult'.stderr = <<"Command timed out after ">>
             /\ procs' = 0]_vars
(***************************************************************************)
(* Properties of read_file, write_file and run_python.                     *)
(***************************************************************************)
\* p is the workspace root or below it.
UnderWorkspace(p) == Len(p) >= Len(WORKSPACE) /\ SubSeq(p, 1, Len(WORKSPACE)) = WORKSPACE

\* The result of a file operation reports a failure.
IsErrorResult(r) ==
    IF r.op = "read_file" THEN r.error # ""
    ELSE IF r.op = "write_file" THEN ~r.success /\ r.error # ""
    ELSE r.returncode = 127

\* C4: once read_file, write_file or run_python has acted on a path
\* argument, every path it read, wrote, created or ran is the workspace
\* root or below it, nothing outside the workspace differs from how it
\* started, and if the argument resolves outside the workspace the result
\* is an error and the operation read, created and spawned nothing.
C4_FileOperationsStayInWorkspace ==
    fResult.op # "none" =>
        /\ \A q \in fTrace.read \cup fTrace.wrote \cup fTrace.made \cup fTrace.spawned :
              UnderWorkspace(q)
        /\ \A q \in DOMAIN files :
              ~UnderWorkspace(q) => q \in DOMAIN InitialFiles /\ files[q] = InitialFiles[q]
        /\ \A q \in dirs : ~UnderWorkspace(q) => q \in InitialDirs
        /\ ~UnderWorkspace(Resolve(fCall, linkPresent)) =>
              /\ IsErrorResult(fResult)
              /\ fTrace = NoFileTrace

\* write_file has refused a path that leaves the workspace through "..".
C4_Witness ==
    /\ fResult.op = "write_file"
    /\ Contains(fCall, <<".", ".">>)
    /\ ~UnderWorkspace(Resolve(fCall, linkPresent))
    /\ fResult.error = "path must be inside workspace"
    /\ ~fResult.success
    /\ files = InitialFiles

(***************************************************************************)
(* Properties of Orchestrator.run_task.                                    *)
(***************************************************************************)
\* run_task is over: it has returned its summary or raised.
OrchOver == oPc \in {"returned", "raised"}

\* C2: every command the orchestrator has created a process for is one the
\* command validator classifies as allowed.
C2_SpawnedCommandsAreAllowed ==
    \A c \in oSpawned : ValidateCommandSafety(c) = "ok"

\* C7: a session that is over and in which every engine response was valid
\* JSON with status "continue" and no commands has run exactly
\* MAX_ITERATIONS iterations, has returned, and its session record was
\* written once, with status "max_iterations" and the deliverables; no
\* session runs more than MAX_ITERATIONS iterations.
C7_ContinueOnlySessionEndsAtLimit ==
    /\ iteration <= MAX_ITERATIONS
    /\ (allContinueEmpty /\ oPc \in {"after_loop", "returned", "raised"})
          => iteration = MAX_ITERATIONS
    /\ (allContinueEmpty /\ OrchOver) =>
          /\ oPc = "returned"
          /\ finalizeCount = 1
          /\ sessionJson.written
          /\ sessionJson.deliverables
          /\ sessionJson.status = "max_iterations"
          /\ sessionJson.iterations = MAX_ITERATIONS

C7_Witness ==
    /\ OrchOver
    /\ allContinueEmpty
    /\ lastResponse.status = "continue"
    /\ iteration = MAX_ITERATIONS
    /\ sessionJson.status = "max_iterations"

\* C8: the finalization has not run while the loop runs, and has run
\* exactly once when run_task is over, however the loop ended: the session
\* record is written with the command counts and the deliverables.
C8_FinalizationRunsExactlyOnce ==
    /\ ~OrchOver => finalizeCount = 0 /\ ~sessionJson.written
    /\ OrchOver =>
          /\ finalizeCount = 1
          /\ sessionJson.written
          /\ sessionJson.deliverables
          /\ sessionJson.total_commands = totalCommands
          /\ sessionJson.failed_commands = failedCommands

\* The loop was ended by a failed engine call, and the finalization has run.
C8_Witness ==
    /\ OrchOver
    /\ lastResponse.kind = "engine_error"
    /\ totalCommands > 0
    /\ finalizeCount = 1
    /\ sessionJson.written
    /\ sessionJson.total_commands = totalCommands

\* C9: a session that is over and whose last engine response had status
\* "blocked" has the status "blocked" and the stated reason on record.
C9_BlockedIsRecorded ==
    (OrchOver /\ lastResponse.status = "blocked") =>
        /\ sessionJson.status = "blocked"
        /\ sessionJson.block_reason = lastResponse.reasoning

\* C10: once an engine response has status "complete" the loop is left in
\* that iteration, and when run_task is over it has returned and the
\* status on record is "complete".
C10_CompleteStopsTheLoop ==
    lastResponse.status = "complete" =>
        /\ oPc # "loop"
        /\ mdStatus = "complete"
        /\ OrchOver =>
              /\ oPc = "returned"
              /\ sessionJson.status = "complete"

\* The response of the last allowed iteration had status "complete".
C10_Witness ==
    /\ OrchOver
    /\ lastResponse.status = "complete"
    /\ iteration = MAX_ITERATIONS
    /\ sessionJson.status = "complete"

\* C11: a session that is over and whose loop was ended by a failed engine
\* call has a status on record, and it is the error status.
C11_EngineFailureIsRecordedAsError ==
    (OrchOver /\ lastResponse.kind = "engine_error") =>
        /\ sessionJson.written
        /\ sessionJson.status = "error"

\* C12: when a response that is not JSON follows a response that was not
\* JSON either, the loop does not go on to another iteration: the session
\* is ended.
C12_SecondInvalidJsonEndsSession ==
    [][(/\ lastResponse.kind = "invalid_json"
        /\ oPc = "loop"
        /\ lastResponse'.kind = "invalid_json")
          => oPc' # "loop"]_vars

\* C13: when a failed engine call has ended the loop, the turn it ended
\* holds a call made after a failed call, that is, at least two failed
\* calls.
C13_FailedEngineCallIsRetried ==
    lastResponse.kind = "engine_error" =>
        Cardinality({k \in DOMAIN lastResponse.calls :
                        lastResponse.calls[k] = "raise"}) >= 2

(***************************************************************************)
(* Properties of get_complete_response.                                    *)
(***************************************************************************)
\* C14: when the turn ends with finish reason "stop" after fragments that
\* were all cut off, the text returned is the fragments joined in order,
\* which is what a single response holding the whole text gives.
C14_FragmentsAreConcatenated ==
    (gPc = "returned" /\ gResult.status = "complete") =>
        /\ gResult.text = Flatten(gFragments)
        /\ gResult.text = Accumulate(<<>>, Flatten(gFragments))
        /\ ~gResult.none

\* Three different fragments, the first two cut off, have been joined.
C14_Witness ==
    /\ gPc = "returned"
    /\ gResult.status = "complete"
    /\ gFragments = << <<"b", "c">>, <<"a">>, <<"b", "c">> >>
    /\ gResult.text = <<"b", "c", "a", "b", "c">>
    /\ gCalls < MAX_CONTINUATION_ATTEMPTS

\* C15: get_complete_response never makes more than
\* MAX_CONTINUATION_ATTEMPTS engine calls in a turn; when it returns
\* "max_continuations" it has made exactly that many and returns the text
\* accumulated from them; and it always returns.
C15_ContinuationsAreBounded ==
    /\ [](/\ gCalls <= MAX_CONTINUATION_ATTEMPTS
          /\ (gPc = "returned" /\ gAttempts = MAX_CONTINUATION_ATTEMPTS) =>
                /\ gResult.status = "max_continuations"
                /\ gResult.text = Flatten(gFragments)
          /\ gResult.status = "max_continuations" =>
                /\ gCalls = MAX_CONTINUATION_ATTEMPTS
                /\ Len(gFragments) = MAX_CONTINUATION_ATTEMPTS)
    /\ <>(gPc = "returned")

\* Every response of the turn was cut off and the budget has run out.
C15_Witness ==
    /\ gPc = "returned"
    /\ gResult.status = "max_continuations"
    /\ gCalls = MAX_CONTINUATION_ATTEMPTS
    /\ gResult.text # <<>>

(***************************************************************************)
(* Properties of the dispatch of one turn.                                 *)
(***************************************************************************)
\* C16: at every moment of a turn of either loop the executions so far are
\* start 1, finish 1, start 2, finish 2, ... with no start before the
\* finish of the one before; the i-th result obtained and the i-th result
\* handed to the engine are those of the i-th request.
C16_RequestsRunInOrderOneAtATime ==
    /\ \A k \in DOMAIN dEvents :
          dEvents[k] = IF k % 2 = 1 THEN Started((k + 1) \div 2)
                                    ELSE Finished(k \div 2)
    /\ Len(dEvents) \div 2 = Len(dResults)
    /\ Len(dResults) <= Len(dRequests)
    /\ \A i \in DOMAIN dResults :
          dResults[i].of = i /\ dResults[i].request = dRequests[i]
    /\ Len(dFeedback) <= Len(dResults)
    /\ \A i \in DOMAIN dFeedback : dFeedback[i] = dResults[i]
    /\ (dLoop = "orchestrator" /\ dPc = "fed_back") => dFeedback = dResults
    /\ dLoop = "agent" => dFeedback = dResults

\* The orchestrator has handed the engine the results of two different
\* commands.
C16_Witness ==
    /\ dLoop = "orchestrator"
    /\ dPc = "fed_back"
    /\ Len(dFeedback) = 2
    /\ dRequests[1] # dRequests[2]
    /\ dFeedback[2].request = dRequests[2]
    /\ dFeedback[1].result.returncode # dFeedback[2].result.returncode

\* The result of a command that timed out (124), was blocked by the
\* validator (126) or could not be started (127 from run_shell, 1 with no
\* process from execute_command).
IsLocalFailure(loop, r) ==
    IF loop = "agent" THEN r.result.returncode \in {124, 126, 127}
    ELSE r.result.returncode = 124 \/ (r.result.returncode = 1 /\ ~r.result.success)

\* C17: a turn is never cut short by a command that was blocked, timed out
\* or could not be started: the orchestrator never raises within a turn and
\* ends it with one result per command, the failures counted, and the loop
\* on its way to the next iteration while iterations are left; vps_agent
\* stops within a turn only when run_shell itself raised, which it does for
\* none of the three, or when the next call is one it cannot carry out, and
\* otherwise ends the turn with one result per call and goes on to the next
\* engine turn.
C17_CommandFailuresAreLocal ==
    /\ dPc = "raised" =>
          /\ dLoop = "agent"
          /\ Len(dEvents) % 2 = 1 =>
                /\ shPc = "raised"
                /\ shTrace.validated = "ok"
                /\ ~shTrace.spawned
    /\ (dLoop = "orchestrator" /\ dPc = "fed_back") =>
          /\ Len(dFeedback) = Len(dRequests)
          /\ totalCommands = Len(dRequests)
          /\ failedCommands =
                Cardinality({i \in DOMAIN dFeedback : ~dFeedback[i].result.success})
          /\ oPc = IF iteration < MAX_ITERATIONS THEN "loop" ELSE "after_loop"
    /\ (dLoop = "agent" /\ dPc \in {"engine", "returned"} /\ dTurn > 0) =>
          Len(dFeedback) = Len(dRequests)
    /\ \A i \in DOMAIN dResults :
          (IsLocalFailure(dLoop, dResults[i]) /\ i < Len(dRequests))
             => \/ dPc # "raised"
                \/ Len(dEvents) > 2 * i
                \/ dRequests[i + 1] \in MalformedCalls

\* vps_agent has finished a turn whose first call was blocked and whose
\* second call timed out, and is about to call the engine again.
C17_Witness ==
    /\ dLoop = "agent"
    /\ dPc = "engine"
    /\ dTurn < dMaxTurns
    /\ Len(dFeedback) = 2
    /\ dFeedback[1].result.returncode = 126
    /\ dFeedback[2].result.returncode = 124

\* C18: every standard output handed to the engine is at most OUTPUT_TAIL
\* characters long.
C18_FeedbackIsTruncated ==
    \A i \in DOMAIN dFeedback : dFeedback[i].result.stdout <= OUTPUT_TAIL

(***************************************************************************)
(* Properties of the timeout and of writing and reading back.              *)
(***************************************************************************)
\* The timeout the claim expects for a given one.
ExpectedTimeout(t) == IF t < 1 THEN 1 ELSE IF t > 600 THEN 600 ELSE t

\* C19: whenever run_shell or run_python has started a process, the timeout
\* it applied is between 1 and 600: 1 for a given timeout below 1, 600 for
\* one above 600, and the given timeout otherwise.
C19_TimeoutIsClamped ==
    /\ shTrace.spawned =>
          /\ shTrace.timeout \in 1..600
          /\ shTrace.timeout = ExpectedTimeout(shCall.timeout)
    /\ fTrace.spawned # {} =>
          /\ fTrace.timeout \in 1..600
          /\ fTrace.timeout = ExpectedTimeout(fTrace.timeout_arg)

\* run_shell was given 601 and run_python 0, and both started a process.
C19_Witness ==
    /\ shTrace.spawned
    /\ shCall.timeout = 601
    /\ shTrace.timeout = 600
    /\ fTrace.spawned # {}
    /\ fTrace.timeout_arg = 0
    /\ fTrace.timeout = 1

\* C20: a read_file that directly follows a successful write_file on the
\* same path succeeds, reads the file that was written, and, when the
\* encoded content is at most max_bytes long, returns the content written.
C20_WriteThenReadReturnsContent ==
    [][(/\ fResult.op = "write_file"
        /\ fResult.success
        /\ fResult'.op = "read_file")
          => /\ fResult'.error = ""
             /\ fTrace'.read = fTrace.wrote
             /\ Len(Utf8Encode(fTrace.content_arg)) <= fTrace'.max_bytes_arg
                   => fResult'.content = fTrace.content_arg]_vars

\* A content of three bytes, one character of which takes two, was written
\* to a new file in a new directory and read back with max_bytes = 3.
C20_Witness ==
    /\ fResult.op = "read_file"
    /\ fCall = <<"b","/","c">>
    /\ fTrace.max_bytes_arg = 3
    /\ fResult.content = <<"o", EAcute>>
    /\ fResult.error = ""

(***************************************************************************)
(* Properties of vps_agent.run_task.                                       *)
(***************************************************************************)
\* vps_agent.run_task has got a response without tool calls.
FinalResponseIn ==
    /\ dLoop = "agent"
    /\ dTurn > 0
    /\ dRequests = <<>>
    /\ aOut.raised_by = "none"

\* C21 as it was stated: once vps_agent.run_task has got a response without
\* tool calls it has returned, and what it returned is the text of that
\* response followed by the deliverables section and nothing else.
C21_ReturnsResponseTextAndDeliverables ==
    FinalResponseIn =>
        /\ dPc = "returned"
        /\ aOut.returned.text = aOut.response_text
        /\ aOut.returned.transcript = 0
        /\ aOut.returned.deliverables

\* C21: the first response without tool calls ends vps_agent.run_task: it
\* has returned, the engine was called once per turn begun and no tool was
\* started in this turn, and what it returned is the tool transcript when
\* one was asked for and a tool has run, then the text of that response
\* without its surrounding whitespace ("(no text output)" when nothing is
\* left of it), then the deliverables section.
C21_FinalResponseEndsTheLoop ==
    FinalResponseIn =>
        /\ dPc = "returned"
        /\ aOut.engine_calls = dTurn
        /\ dEvents = <<>>
        /\ shPc = "idle"
        /\ aOut.returned.kind = "final"
        /\ aOut.returned.text =
              (IF \A i \in DOMAIN aOut.response_text : aOut.response_text[i] = " "
               THEN NoTextOutput ELSE Strip(aOut.response_text))
        /\ aOut.returned.transcript =
              (IF aOut.include_transcript THEN aOut.transcript ELSE 0)
        /\ aOut.returned.deliverables

\* The second response has no tool call and run_task has returned its text,
\* stripped, after the transcript of the tool that ran in the first turn.
C21_Witness ==
    /\ FinalResponseIn
    /\ dPc = "returned"
    /\ dTurn = 2
    /\ aOut.response_text = <<" ", "o", "k", " ">>
    /\ aOut.returned.text = <<"o", "k">>
    /\ aOut.returned.transcript = 1
    /\ aOut.returned.deliverables

\* C22: when the engine call of vps_agent.run_task has raised, run_task has
\* still scanned the deliverables and produced a result that holds the
\* transcript gathered so far.
C22_EngineFailureStillFinalizes ==
    (dLoop = "agent" /\ aOut.raised_by = "engine") =>
        /\ aOut.returned.kind # "none"
        /\ aOut.returned.deliverables
        /\ aOut.returned.transcript =
              (IF aOut.include_transcript THEN aOut.transcript ELSE 0)

\* C30: every tool call of a response that vps_agent.run_task has come to,
\* be it one of an unknown tool, with arguments that are not JSON or with
\* arguments the tool does not accept, has a result that was handed to the
\* engine, and run_task was not ended by an exception of the call.
C30_EveryToolCallGetsAResult ==
    dLoop = "agent" =>
        /\ aOut.raised_by \notin {"KeyError", "JSONDecodeError", "TypeError"}
        /\ \A i \in DOMAIN dRequests :
              (dRequests[i] \in MalformedCalls /\ i < dNext)
                 => (i \in DOMAIN dFeedback /\ dFeedback[i].of = i)

(***************************************************************************)
(* Properties of the iteration files of the orchestrator.                  *)
(***************************************************************************)
\* C23: once Orchestrator.run_task has finalized, the iteration numbers
\* from 1 to self.iteration all have their record: there are as many
\* records as iterations.
C23_OneRecordPerIteration ==
    finalizeCount > 0 => iterationRecords = iteration

(***************************************************************************)
(* Properties of list_deliverables.                                        *)
(***************************************************************************)
\* The name ends with one of the artifact extensions and has something in
\* front of it.
HasArtifactExtension(name) ==
    \E e \in EXTENSIONS :
        /\ Len(name) > Len(e)
        /\ SubSeq(name, Len(name) - Len(e) + 1, Len(name)) = e

\* C24: what list_deliverables returned is in strictly ascending order, so
\* sorted and without duplicates, and its entries are exactly the paths,
\* relative to the workspace root, of the files at any depth below the root
\* whose name has an artifact extension and is not snippet.py or .gitkeep.
C24_DeliverablesAreExactlyTheArtifacts ==
    fResult.op = "list_deliverables" =>
        LET listed == fResult.content
        IN  /\ \A i, j \in DOMAIN listed : i < j => StrLess(listed[i], listed[j])
            /\ \A i \in DOMAIN listed :
                  /\ listed[i][1] # "/"
                  /\ \E q \in DOMAIN files :
                        /\ IsPrefix(WORKSPACE, q)
                        /\ JoinNames(q) = JoinNames(WORKSPACE) \o <<"/">> \o listed[i]
                        /\ HasArtifactExtension(q[Len(q)])
                        /\ q[Len(q)] \notin { <<"s","n","i","p","p","e","t",".","p","y">>, <<".","g","i","t","k","e","e","p">> }
            /\ \A q \in DOMAIN files :
                  (/\ IsPrefix(WORKSPACE, q)
                   /\ HasArtifactExtension(q[Len(q)])
                   /\ q[Len(q)] \notin { <<"s","n","i","p","p","e","t",".","p","y">>, <<".","g","i","t","k","e","e","p">> })
                     => \E i \in DOMAIN listed :
                           JoinNames(q) = JoinNames(WORKSPACE) \o <<"/">> \o listed[i]

\* The workspace holds snippet.py in a directory and a file b.txt beside
\* it, and list_deliverables has returned the one path d/b.txt.
C24_Witness ==
    /\ fResult.op = "list_deliverables"
    /\ (WORKSPACE \o << <<"d">>, <<"s","n","i","p","p","e","t",".","p","y">> >>) \in DOMAIN files
    /\ fResult.content = << <<"d","/","b",".","t","x","t">> >>

(***************************************************************************)
(* Properties of the execution mode and of the path check of run_shell.    *)
(***************************************************************************)
\* C25: a command that run_shell has executed went through a shell
\* interpreter if it holds a shell metacharacter and as an argument vector
\* without a shell otherwise, and the result says which of the two it was.
C25_ModeFollowsMetacharactersAndIsReported ==
    (shPc = "returned" /\ shTrace.spawned) =>
        /\ shTrace.mode = (IF HasShellSyntax(shCall.command) THEN "shell" ELSE "argv")
        /\ shResult.has_shell_mode
        /\ shResult.shell_mode = (shTrace.mode = "shell")

\* The names of an absolute path once "." and ".." are worked out.
RECURSIVE NormaliseNames(_, _)
NormaliseNames(names, acc) ==
    IF names = <<>> THEN acc
    ELSE IF Head(names) = <<".">> THEN NormaliseNames(Tail(names), acc)
    ELSE IF Head(names) = <<".", ".">>
         THEN NormaliseNames(Tail(names),
                             IF acc = <<>> THEN acc ELSE SubSeq(acc, 1, Len(acc) - 1))
    ELSE NormaliseNames(Tail(names), Append(acc, Head(names)))

\* The token is an absolute path that leads neither into the workspace nor
\* into /usr, /bin or /lib.
IsOutsideAbsolutePath(token) ==
    /\ token # <<>>
    /\ token[1] = "/"
    /\ LET location == NormaliseNames(SplitRuns(token, {"/"}), <<>>)
       IN  /\ ~IsPrefix(WORKSPACE, location)
           /\ \/ location = <<>>
              \/ location[1] \notin { <<"u","s","r">>, <<"b","i","n">>, <<"l","i","b">> }

\* C26: a command one of whose whitespace-delimited tokens is an absolute
\* path outside the workspace and outside /usr, /bin and /lib is rejected
\* by the validator: run_shell returns 126 and creates no process.
C26_OutsideAbsolutePathsAreRejected ==
    (/\ ShellCallOver
     /\ \E token \in Range(SplitRuns(shCall.command, Whitespace)) :
           IsOutsideAbsolutePath(token))
        => /\ shPc = "returned"
           /\ shResult.returncode = 126
           /\ ~shTrace.spawned

C28_SnippetIsRunAsFoundInTheFile ==
    [][\A s \in Sessions :
          (pySessions[s].pc = "written" /\ pySessions'[s].pc = "running")
             => pySessions'[s].executed = files[SnippetPath]]_vars

\* Session 1 called run_python with its own code, different from that of
\* session 2, and its interpreter has run the code session 2 wrote.
C28_Witness ==
    /\ pySessions # <<>>
    /\ pySessions[1].code # pySessions[2].code
    /\ pySessions[1].pc = "returned"
    /\ pySessions[1].executed = Utf8Encode(pySessions[2].code)

(***************************************************************************)
(* Properties of the history of CodingAgent.                               *)
(***************************************************************************)
\* C29: after every call of call_chatgpt the history holds at most 20
\* messages, an even number of them, user and assistant in turn beginning
\* with user, and it ends with what the last parsed responses appended; a
\* call that failed has left it as it was.
C29_HistoryIsABoundedAlternatingWindow ==
    [][/\ Len(conversation_history') <= HISTORY_LIMIT
       /\ Len(conversation_history') % 2 = 0
       /\ \A i \in DOMAIN conversation_history' :
             conversation_history'[i].role =
                (IF i % 2 = 1 THEN "user" ELSE "assistant")
       /\ chatResult'.outcome = "ok" =>
             /\ conversation_history' # <<>>
             /\ conversation_history'[Len(conversation_history')].content =
                   chatResult'.returned
             /\ \A i \in 1..(Len(conversation_history') - 2) :
                   conversation_history'[i] =
                      conversation_history[i + Len(conversation_history) + 2
                                             - Len(conversation_history')]
       /\ chatResult'.outcome \in CaughtExceptions \cup UncaughtExceptions =>
             conversation_history' = conversation_history]_vars

\* The history is full, with an empty assistant message as its newest
\* entry, and the last call has failed.
C29_Witness ==
    /\ Len(conversation_history) = HISTORY_LIMIT
    /\ conversation_history[2].content = <<"a">>
    /\ conversation_history[HISTORY_LIMIT].content = <<>>
    /\ chatResult.outcome = "RequestException"

(***************************************************************************)
(* Properties of the environment of the processes.                         *)
(***************************************************************************)
\* C31 as it was stated: every process that run_shell or run_python has
\* created was given the restricted environment and nothing of what the
\* environment of the agent process holds.
C31_EveryProcessGetsTheRestrictedEnvironment ==
    /\ shTrace.spawned =>
          (shTrace.env.restricted /\ shTrace.env.observed = "none")
    /\ fTrace.spawned # {} =>
          (fTrace.env.restricted /\ fTrace.env.observed = "none")

\* C31: a process that run_shell has created through the shell interpreter
\* was given the restricted environment, with PWD the working directory,
\* and nothing of the environment of the agent process; a process created
\* from an argument vector, by run_shell or by run_python, was given no
\* environment of its own and sees that of the agent process.
C31_OnlyShellModeRestrictsTheEnvironment ==
    /\ (shTrace.spawned /\ shTrace.mode = "shell") =>
          /\ shTrace.env.restricted
          /\ shTrace.env.observed = "none"
          /\ shTrace.env.PWD = shResult.cwd
    /\ (shTrace.spawned /\ shTrace.mode = "argv") =>
          /\ ~shTrace.env.restricted
          /\ shTrace.env.observed \in AgentEnvironments
    /\ fTrace.spawned # {} =>
          /\ ~fTrace.env.restricted
          /\ fTrace.env.observed \in AgentEnvironments

\* A command with shell syntax has run in the restricted environment, and
\* python3 has run with the environment of the agent process.
C31_Witness ==
    /\ shPc = "returned"
    /\ shTrace.spawned
    /\ shTrace.mode = "shell"
    /\ shTrace.env.restricted
    /\ fTrace.spawned # {}
    /\ fTrace.env.observed = "SECRET=2"

(***************************************************************************)
(* Properties of read_file outside the workspace.                          *)
(***************************************************************************)
\* C32: what read_file returns for a path that resolves outside the
\* workspace is the refusal, made of the path alone: it is the same in the
\* file system that has a file at that place and in the one that has none,
\* and nothing was read.
C32_OutsideReadsRevealNothing ==
    (fResult.op = "read_file" /\ ~UnderWorkspace(Resolve(fCall, linkPresent))) =>
        /\ fResult = [NoFileResult EXCEPT
                         !.op = "read_file",
                         !.path = fCall,
                         !.error = "path must be inside workspace"]
        /\ fTrace = NoFileTrace

\* read_file has refused a path that leads through the symbolic link to a
\* file that exists outside the workspace.
C32_Witness ==
    /\ fResult.op = "read_file"
    /\ linkPresent
    /\ Resolve(fCall, linkPresent) = OutsideFile
    /\ OutsideFile \in DOMAIN files
    /\ fResult.error = "path must be inside workspace"

(***************************************************************************)
(* Properties of the command counts of Orchestrator.run_task.              *)
(***************************************************************************)
\* The commands handed to execute_command so far.
CommandsBegun == { i \in DOMAIN dEvents : dEvents[i].event = "start" }

\* The commands whose result has a return code other than 0.
CommandsFailed == { i \in DOMAIN dResults : dResults[i].result.returncode # 0 }

\* C33: failed_commands never exceeds total_commands; total_commands is the
\* number of commands handed to execute_command so far, which between two
\* commands is the number of results; failed_commands is the number of
\* results with a return code other than 0; and session.json holds these two
\* counts.
C33_CountsMatchTheCommandsExecuted ==
    dLoop = "orchestrator" =>
        /\ failedCommands <= totalCommands
        /\ totalCommands = Cardinality(CommandsBegun)
        /\ dPc # "running" => totalCommands = Len(dResults)
        /\ failedCommands = Cardinality(CommandsFailed)
        /\ sessionJson.written =>
              /\ sessionJson.total_commands = Cardinality(CommandsBegun)
              /\ sessionJson.failed_commands = Cardinality(CommandsFailed)

\* session.json was written after an iteration of two commands of which one
\* failed.
C33_Witness ==
    /\ dLoop = "orchestrator"
    /\ sessionJson.written
    /\ sessionJson.total_commands = 2
    /\ sessionJson.failed_commands = 1

\* C34: an iteration whose response has the status "complete" or "blocked"
\* runs none of the commands the response lists: no process is started and
\* total_commands and failed_commands stay as they were.
C34_FinalResponsesRunNoCommands ==
    [][ ( /\ iteration' = iteration + 1
          /\ lastResponse'.kind = "action"
          /\ lastResponse'.status \in {"complete", "blocked"} )
        => ( /\ totalCommands' = totalCommands
             /\ failedCommands' = failedCommands
             /\ oSpawned' = oSpawned ) ]_vars

\* A response with the status "blocked" that lists a command has been
\* handled, after an iteration that ran a command.
C34_Witness ==
    /\ lastResponse.kind = "action"
    /\ lastResponse.status = "blocked"
    /\ lastResponse.ignored # <<>>
    /\ totalCommands = 1
    /\ oPc = "after_loop"

(***************************************************************************)
(* Properties of the messages replayed to the engine.                      *)
(***************************************************************************)
\* The text of the assistant messages among ms, joined in order.
AssistantText(ms) ==
    Flatten([i \in DOMAIN SelectSeq(ms, LAMBDA m : m.role = "assistant") |->
                SelectSeq(ms, LAMBDA m : m.role = "assistant")[i].content])

\* C35: when a turn that needed continuation is over and its content went
\* into the conversation, the assistant messages the turn has added hold
\* the text of each fragment once: joined, they are the fragments joined.
C35_EachFragmentIsReplayedOnce ==
    ( /\ gPc = "next_turn"
      /\ Len(gFragments) > 1
      /\ \E m \in Range(gAppended) : m.role = "assistant" /\ m.content = gResult.text )
    => AssistantText(gAppended) = Flatten(gFragments)

(***************************************************************************)
(* Properties of the items vps_agent.run_task hands to the engine.         *)
(***************************************************************************)
\* The places of the items of a type among the items added since the last
\* response.
ItemsOfType(t) == { i \in DOMAIN aOut.items : aOut.items[i].type = t }

\* The output items that carry the call_id of the item at place c.
OutputsFor(c) ==
    { o \in ItemsOfType("function_call_output") :
         aOut.items[o].call_id = aOut.items[c].call_id }

\* C36: when run_task is about to call the engine again, the items added
\* since the last response hold exactly one function_call_output item for
\* each function call of that response, every output item answers a call
\* and comes after all the output items of the response, and the output
\* items are in the order of their calls.
C36_EveryCallIsAnsweredOnceInOrder ==
    (dLoop = "agent" /\ dPc = "engine" /\ dTurn >= 1 /\ dTurn < dMaxTurns) =>
        /\ Cardinality(ItemsOfType("function_call")) = Len(dRequests)
        /\ \A c \in ItemsOfType("function_call") : Cardinality(OutputsFor(c)) = 1
        /\ \A o \in ItemsOfType("function_call_output") :
              /\ \E c \in ItemsOfType("function_call") : o \in OutputsFor(c)
              /\ \A j \in DOMAIN aOut.items :
                    aOut.items[j].type # "function_call_output" => j < o
        /\ \A c1, c2 \in ItemsOfType("function_call") :
              c1 < c2 => \A o1 \in OutputsFor(c1), o2 \in OutputsFor(c2) : o1 < o2

\* The second engine call is due after a response with two function calls
\* and text, and both calls have their output items.
C36_Witness ==
    /\ dLoop = "agent"
    /\ dPc = "engine"
    /\ dTurn = 1
    /\ dMaxTurns = 2
    /\ Len(dRequests) = 2
    /\ Len(aOut.items) = 5
    /\ aOut.items[3].type = "message"
    /\ aOut.items[5].call_id = 2

\* C37: run_task calls the engine at most max_turns times; with max_turns
\* of 0 or less it calls neither the engine nor a tool; and a run that is
\* over, in which the engine answered every call with a response that holds
\* a tool call, has made exactly max_turns engine calls and has returned the
\* max-turns message with the deliverables section.
C37_TurnsAreBoundedByMaxTurns ==
    dLoop = "agent" =>
        /\ aOut.engine_calls <= Max({dMaxTurns, 0})
        /\ dMaxTurns <= 0 => (aOut.engine_calls = 0 /\ dEvents = <<>> /\ shPc = "idle")
        /\ ( /\ dPc \in {"returned", "raised"}
             /\ aOut.raised_by # "engine"
             /\ aOut.returned.kind # "final" )
           => /\ aOut.engine_calls = Max({dMaxTurns, 0})
              /\ aOut.returned.kind = "max_turns"
              /\ aOut.returned.deliverables

(***************************************************************************)
(* Properties of CodingAgent.run.                                          *)
(***************************************************************************)
\* The counter a new CodingAgent would load.
PersistedIteration == LoadState(stateFile).iteration

\* C38: between the passes of the loop the persisted counter is the number
\* of iterations executed by all runs so far, which is never more than
\* max_iterations; and a run that began with the counter at the limit has
\* called the engine not once and returns 1.
C38_IterationsAreCountedAcrossRuns ==
    caRun.pc # "idle" =>
        /\ PersistedIteration = caRun.executed
        /\ caRun.executed <= caRun.max_iterations
        /\ (caRun.started_at >= caRun.max_iterations /\ caRun.pc # "loop") =>
              (caRun.engine_calls = 0 /\ caRun.returned = 1)

\* C39: a run that returned 0 has task_completed set, and every run that
\* ended otherwise returned 1 with the counter at the iteration limit.
C39_ZeroMeansTheEngineSignalledCompletion ==
    caRun.pc \in {"returned", "raised"} =>
        IF caRun.returned = 0
        THEN state.task_completed
        ELSE caRun.returned = 1 /\ state.iteration >= caRun.max_iterations


====
